---- MODULE Spec2Model ----
(***************************************************************************)
(* The safe arithmetic expression language of the Belforge browser tools.  *)
(*                                                                         *)
(* Three copies of the tokenizer / recursive-descent evaluator exist:      *)
(*   "utils"      BelforgeUtils.SafeMathParser + safeEval                   *)
(*                (src/unnamed/part_001, the shared utilities)             *)
(*   "offline"    SafeMathParser + evaluateFormula                         *)
(*                (src/js/offline-progress-simulator.js)                   *)
(*   "visualizer" tokenize + safeEval                                      *)
(*                (src/unnamed/part_000, the curve visualizer)             *)
(* Each is modelled from its own source; the operators below take the      *)
(* variant as parameter v where the copies differ.                         *)
(*                                                                         *)
(* A source string is a sequence of one-character strings.  A JavaScript   *)
(* number is a record: a finite double is an exact rational in sign /      *)
(* magnitude form (so that -0 exists), the infinities and NaN are their    *)
(* own kinds.  Rounding of doubles is not modelled; a finite value whose   *)
(* numerator or denominator exceeds FloatMax, or that is irrational, is    *)
(* the kind "oor" (a double outside the exact range of the model), and     *)
(* the inputs are restricted to those whose evaluation never produces it.  *)
(***************************************************************************)
EXTENDS Integers, Sequences, FiniteSets, TLC

\* ------------------------------------------------------------------ bounds

\* Largest numerator / denominator of a finite number the model represents.
FloatMax == 10000

\* ------------------------------------------------------------ JS numbers

NaN == [k |-> "nan"]
Inf(s) == [k |-> "inf", s |-> s]
OOR == [k |-> "oor"]
\* A named constant of Math (PI, E, ...): a finite positive double whose
\* digits the model does not follow.
Const(name) == [k |-> "const", name |-> name]
\* a double the model cannot compute with
Opaque(x) == x.k \in {"oor", "const"}
Raw(s, n, d) == [k |-> "num", s |-> s, n |-> n, d |-> d]
Zero(s) == Raw(s, 0, 1)
Num(i) == IF i < 0 THEN Raw(-1, -i, 1) ELSE Raw(1, i, 1)

RECURSIVE Gcd(_, _)
Gcd(a, b) == IF b = 0 THEN a ELSE Gcd(b, a % b)

\* The double with sign s and magnitude n/d.
Norm(s, n, d) ==
    IF n = 0 THEN Zero(s)
    ELSE LET g == Gcd(n, d)
         IN  IF n \div g > FloatMax \/ d \div g > FloatMax THEN OOR
             ELSE Raw(s, n \div g, d \div g)

IsNum(x) == x.k \in {"num", "inf", "nan", "oor", "const"}
IsZero(x) == x.k = "num" /\ x.n = 0
IsInteger(x) == x.k = "num" /\ x.d = 1
IsOdd(x) == IsInteger(x) /\ x.n % 2 = 1
\* isFinite(x) / isNaN(x) of a number
IsFiniteNum(x) == x.k \in {"num", "const"}
\* x < y on finite numbers and infinities (-0 and +0 compare equal)
Less(x, y) ==
    LET sx == IF x.k = "inf" THEN 2 * x.s ELSE IF IsZero(x) THEN 0 ELSE x.s
        sy == IF y.k = "inf" THEN 2 * y.s ELSE IF IsZero(y) THEN 0 ELSE y.s
    IN  IF sx # sy THEN sx < sy
        ELSE IF x.k # "num" \/ IsZero(x) THEN FALSE
        ELSE IF x.s = 1 THEN x.n * y.d < y.n * x.d
        ELSE y.n * x.d < x.n * y.d

NumNeg(x) ==
    CASE x.k = "num" -> Raw(-x.s, x.n, x.d)
      [] x.k = "inf" -> Inf(-x.s)
      [] x.k = "const" -> OOR
      [] OTHER -> x

NumAdd(x, y) ==
    IF Opaque(x) \/ Opaque(y) THEN OOR
    ELSE IF x.k = "nan" \/ y.k = "nan" THEN NaN
    ELSE IF x.k = "inf" /\ y.k = "inf" THEN (IF x.s = y.s THEN x ELSE NaN)
    ELSE IF x.k = "inf" THEN x
    ELSE IF y.k = "inf" THEN y
    ELSE LET sum == x.s * x.n * y.d + y.s * y.n * x.d
         IN  IF sum = 0 THEN Zero(IF x.s = -1 /\ y.s = -1 THEN -1 ELSE 1)
             ELSE IF sum < 0 THEN Norm(-1, -sum, x.d * y.d)
             ELSE Norm(1, sum, x.d * y.d)

NumSub(x, y) == NumAdd(x, NumNeg(y))

NumMul(x, y) ==
    IF Opaque(x) \/ Opaque(y) THEN OOR
    ELSE IF x.k = "nan" \/ y.k = "nan" THEN NaN
    ELSE IF x.k = "inf" \/ y.k = "inf"
         THEN (IF IsZero(x) \/ IsZero(y) THEN NaN ELSE Inf(x.s * y.s))
    ELSE Norm(x.s * y.s, x.n * y.n, x.d * y.d)

NumDiv(x, y) ==
    IF Opaque(x) \/ Opaque(y) THEN OOR
    ELSE IF x.k = "nan" \/ y.k = "nan" THEN NaN
    ELSE IF x.k = "inf" THEN (IF y.k = "inf" THEN NaN ELSE Inf(x.s * y.s))
    ELSE IF y.k = "inf" THEN Zero(x.s * y.s)
    ELSE IF IsZero(y) THEN (IF IsZero(x) THEN NaN ELSE Inf(x.s * y.s))
    ELSE Norm(x.s * y.s, x.n * y.d, x.d * y.n)

\* The JS remainder: the sign of the dividend, truncated quotient.
NumMod(x, y) ==
    IF Opaque(x) \/ Opaque(y) THEN OOR
    ELSE IF x.k = "nan" \/ y.k = "nan" THEN NaN
    ELSE IF x.k = "inf" \/ IsZero(y) THEN NaN
    ELSE IF y.k = "inf" \/ IsZero(x) THEN x
    ELSE Norm(x.s, (x.n * y.d) % (y.n * x.d), x.d * y.d)

\* n^e by repeated multiplication, stopping once the range is left.
RECURSIVE PowAcc(_, _, _)
PowAcc(n, e, acc) ==
    IF e = 0 \/ acc > FloatMax THEN acc ELSE PowAcc(n, e - 1, acc * n)

\* Math.pow(x, y)
NumPow(x, y) ==
    IF Opaque(x) \/ Opaque(y) THEN OOR
    ELSE IF y.k = "nan" THEN NaN
    ELSE IF IsZero(y) THEN Num(1)
    ELSE IF x.k = "nan" THEN NaN
    ELSE IF y.k = "inf"
         THEN (IF x.k = "num" /\ x.n = x.d THEN NaN
               ELSE IF (x.k = "inf" \/ x.n > x.d) = (y.s = 1) THEN Inf(1)
               ELSE Zero(1))
    ELSE IF x.k = "inf"
         THEN (IF y.s = 1 THEN Inf(IF x.s = -1 /\ IsOdd(y) THEN -1 ELSE 1)
               ELSE Zero(IF x.s = -1 /\ IsOdd(y) THEN -1 ELSE 1))
    ELSE IF IsZero(x)
         THEN (IF y.s = 1 THEN Zero(IF x.s = -1 /\ IsOdd(y) THEN -1 ELSE 1)
               ELSE Inf(IF x.s = -1 /\ IsOdd(y) THEN -1 ELSE 1))
    ELSE IF ~IsInteger(y)
         THEN (IF x.s = -1 THEN NaN ELSE IF x.n = x.d THEN Num(1) ELSE OOR)
    ELSE LET s  == IF x.s = -1 /\ IsOdd(y) THEN -1 ELSE 1
             pn == IF x.n = 1 THEN 1 ELSE PowAcc(x.n, y.n, 1)
             pd == IF x.d = 1 THEN 1 ELSE PowAcc(x.d, y.n, 1)
         IN  IF pn > FloatMax \/ pd > FloatMax THEN OOR
             ELSE IF y.s = 1 THEN Raw(s, pn, pd) ELSE Raw(s, pd, pn)

\* ------------------------------------------------------------- JS values

\* Values other than numbers that an evaluation can meet: a function object
\* (an inherited method of Object.prototype), a plain object, a Number
\* object wrapping a number, and a string (none of the strings that arise is
\* numeric: each holds the text of a function or "[object ...]").
Fn(name) == [k |-> "fn", name |-> name]
Obj == [k |-> "obj"]
Box(v) == [k |-> "box", v |-> v]
Str == [k |-> "str"]

\* ToNumber
ToNum(v) ==
    CASE IsNum(v) -> v
      [] v.k = "box" -> v.v
      [] OTHER -> NaN

\* typeof v === 'number'
TypeofNumber(v) == IsNum(v)

\* left + right: string concatenation as soon as one side is not numeric
JsAdd(a, b) ==
    IF a.k \in {"fn", "obj", "str"} \/ b.k \in {"fn", "obj", "str"} THEN Str
    ELSE NumAdd(ToNum(a), ToNum(b))
JsSub(a, b) == NumSub(ToNum(a), ToNum(b))
JsMul(a, b) == NumMul(ToNum(a), ToNum(b))
JsDiv(a, b) == NumDiv(ToNum(a), ToNum(b))
JsMod(a, b) == NumMod(ToNum(a), ToNum(b))
JsPow(a, b) == NumPow(ToNum(a), ToNum(b))
JsNeg(a) == NumNeg(ToNum(a))

\* The names every object inherits from Object.prototype, as far as the
\* model follows them, and the value found under each.
ProtoNames == {"constructor", "toString", "valueOf", "hasOwnProperty", "__proto__"}
ProtoValue(name) == IF name = "__proto__" THEN Obj ELSE Fn(name)

\* ---------------------------------------------------------- Math functions

\* args[i] as Math functions read it: a missing argument is undefined -> NaN
Arg(args, i) == IF i <= Len(args) THEN ToNum(args[i]) ELSE NaN

MathAbs(x) == IF x.k \in {"num", "inf"} THEN [x EXCEPT !.s = 1] ELSE x
MathFloor(x) ==
    IF x.k # "num" \/ x.n = 0 THEN x
    ELSE IF x.s = 1 THEN Norm(1, x.n \div x.d, 1)
    ELSE Norm(-1, (x.n + x.d - 1) \div x.d, 1)
MathCeil(x) ==
    IF x.k # "num" \/ x.n = 0 THEN x
    ELSE IF x.s = 1 THEN Norm(1, (x.n + x.d - 1) \div x.d, 1)
    ELSE Norm(-1, x.n \div x.d, 1)
MathTrunc(x) == IF x.k # "num" THEN x ELSE Norm(x.s, x.n \div x.d, 1)
MathRound(x) ==
    IF x.k # "num" \/ x.n = 0 THEN x
    ELSE IF x.s = -1 /\ 2 * x.n <= x.d THEN Zero(-1)
    ELSE MathFloor(NumAdd(x, Raw(1, 1, 2)))
MathSign(x) ==
    IF x.k = "inf" THEN Raw(x.s, 1, 1)
    ELSE IF x.k = "num" /\ x.n # 0 THEN Raw(x.s, 1, 1)
    ELSE x

RECURSIVE ISqrt(_, _)
ISqrt(n, r) == IF r * r >= n THEN r ELSE ISqrt(n, r + 1)
MathSqrt(x) ==
    IF x.k \in {"nan", "oor"} \/ IsZero(x) THEN x
    ELSE IF x.s = -1 THEN NaN
    ELSE IF x.k = "inf" THEN x
    ELSE LET rn == ISqrt(x.n, 0)
             rd == ISqrt(x.d, 0)
         IN  IF rn * rn = x.n /\ rd * rd = x.d THEN Raw(1, rn, rd) ELSE OOR
MathLog(x) ==
    IF x.k \in {"nan", "oor"} THEN x
    ELSE IF IsZero(x) THEN Inf(-1)
    ELSE IF x.s = -1 THEN NaN
    ELSE IF x.k = "inf" THEN x
    ELSE IF x.n = x.d THEN Zero(1)
    ELSE OOR
MathExp(x) ==
    IF x.k \in {"nan", "oor"} THEN x
    ELSE IF IsZero(x) THEN Num(1)
    ELSE IF x.k = "inf" THEN (IF x.s = 1 THEN x ELSE Zero(1))
    ELSE OOR

\* Math.max / Math.min of two numbers (+0 is larger than -0)
Max2(x, y) ==
    IF IsZero(x) /\ y.k = "const" THEN y
    ELSE IF Opaque(x) \/ Opaque(y) THEN OOR
    ELSE IF x.k = "nan" \/ y.k = "nan" THEN NaN
    ELSE IF Less(x, y) THEN y
    ELSE IF Less(y, x) THEN x
    ELSE IF x.k = "num" /\ x.s = -1 THEN y ELSE x
Min2(x, y) ==
    IF Opaque(x) \/ Opaque(y) THEN OOR
    ELSE IF x.k = "nan" \/ y.k = "nan" THEN NaN
    ELSE IF Less(x, y) THEN x
    ELSE IF Less(y, x) THEN y
    ELSE IF x.k = "num" /\ x.s = -1 THEN x ELSE y
RECURSIVE MathMax(_, _)
MathMax(args, i) ==
    IF i > Len(args) THEN Inf(-1) ELSE Max2(ToNum(args[i]), MathMax(args, i + 1))
RECURSIVE MathMin(_, _)
MathMin(args, i) ==
    IF i > Len(args) THEN Inf(1) ELSE Min2(ToNum(args[i]), MathMin(args, i + 1))
RECURSIVE SumSquares(_, _)
SumSquares(args, i) ==
    IF i > Len(args) THEN Zero(1)
    ELSE NumAdd(NumMul(ToNum(args[i]), ToNum(args[i])), SumSquares(args, i + 1))
MathHypot(args) ==
    IF \E i \in 1..Len(args) : ToNum(args[i]).k = "inf" THEN Inf(1)
    ELSE MathSqrt(SumSquares(args, 1))

\* Math[name](...args) for a name of the Math object.  Every Math function
\* returns a number; those whose value is not followed exactly return a
\* double outside the range of the model.
MathCall(name, args) ==
    IF \E i \in 1..Len(args) : Opaque(ToNum(args[i])) THEN OOR ELSE
    CASE name = "abs" -> MathAbs(Arg(args, 1))
      [] name = "ceil" -> MathCeil(Arg(args, 1))
      [] name = "floor" -> MathFloor(Arg(args, 1))
      [] name = "round" -> MathRound(Arg(args, 1))
      [] name = "trunc" -> MathTrunc(Arg(args, 1))
      [] name = "sign" -> MathSign(Arg(args, 1))
      [] name = "sqrt" -> MathSqrt(Arg(args, 1))
      [] name = "log" -> MathLog(Arg(args, 1))
      [] name = "exp" -> MathExp(Arg(args, 1))
      [] name = "pow" -> NumPow(Arg(args, 1), Arg(args, 2))
      [] name = "min" -> MathMin(args, 1)
      [] name = "max" -> MathMax(args, 1)
      [] name = "hypot" -> MathHypot(args)
      [] OTHER -> OOR

\* ------------------------------------------------------------- characters

Digits == {"0", "1", "2", "3", "4", "5", "6", "7", "8", "9"}
DigitVal(c) ==
    CASE c = "0" -> 0 [] c = "1" -> 1 [] c = "2" -> 2 [] c = "3" -> 3
      [] c = "4" -> 4 [] c = "5" -> 5 [] c = "6" -> 6 [] c = "7" -> 7
      [] c = "8" -> 8 [] c = "9" -> 9
Letters ==
    {"a", "b", "c", "d", "e", "f", "g", "h", "i", "j", "k", "l", "m",
     "n", "o", "p", "q", "r", "s", "t", "u", "v", "w", "x", "y", "z",
     "A", "B", "C", "D", "E", "F", "G", "H", "I", "J", "K", "L", "M",
     "N", "O", "P", "Q", "R", "S", "T", "U", "V", "W", "X", "Y", "Z"}
\* /\s/
Whitespace == {" ", "\t", "\n", "\r"}
\* /[0-9.]/
NumberStart == Digits \cup {"."}
\* /[a-zA-Z_]/ and /[a-zA-Z0-9_]/
IdentStart == Letters \cup {"_"}
IdentPart == Letters \cup Digits \cup {"_"}

\* the string spelled by a sequence of characters
RECURSIVE Join(_)
Join(cs) == IF cs = <<>> THEN "" ELSE Head(cs) \o Join(Tail(cs))

\* while (i < expr.length && class.test(expr[i])) i++   (i counts from 1)
RECURSIVE ScanWhile(_, _, _)
ScanWhile(expr, i, class) ==
    IF i <= Len(expr) /\ expr[i] \in class THEN ScanWhile(expr, i + 1, class) ELSE i

\* -------------------------------------------------------------- parseFloat

RECURSIVE DigitsValue(_, _, _, _)
DigitsValue(cs, i, j, acc) ==
    IF i >= j THEN acc
    ELSE IF acc > FloatMax THEN acc
    ELSE DigitsValue(cs, i + 1, j, 10 * acc + DigitVal(cs[i]))

\* parseFloat(cs) for a string that starts with a digit or '.': the value of
\* the longest prefix that is a decimal literal, NaN when there is none.
ParseFloat(cs) ==
    LET intEnd  == ScanWhile(cs, 1, Digits)
        hasDot  == intEnd <= Len(cs) /\ cs[intEnd] = "."
        fracEnd == IF hasDot THEN ScanWhile(cs, intEnd + 1, Digits) ELSE intEnd
        nInt    == intEnd - 1
        nFrac   == IF hasDot THEN fracEnd - intEnd - 1 ELSE 0
        hasE    == fracEnd <= Len(cs) /\ cs[fracEnd] \in {"e", "E"}
        signAt  == fracEnd + 1
        hasSign == hasE /\ signAt <= Len(cs) /\ cs[signAt] \in {"+", "-"}
        expFrom == IF hasSign THEN signAt + 1 ELSE signAt
        expEnd  == IF hasE THEN ScanWhile(cs, expFrom, Digits) ELSE fracEnd
        hasExp  == hasE /\ expEnd > expFrom
        expNeg  == hasSign /\ cs[signAt] = "-"
        expVal  == IF hasExp THEN DigitsValue(cs, expFrom, expEnd, 0) ELSE 0
        intVal  == DigitsValue(cs, 1, intEnd, 0)
        fracVal == IF hasDot THEN DigitsValue(cs, intEnd + 1, fracEnd, 0) ELSE 0
        scale   == PowAcc(10, nFrac, 1)
        tenExp  == PowAcc(10, expVal, 1)
    IN  IF nInt + nFrac = 0 THEN NaN
        ELSE IF intVal > FloatMax \/ fracVal > FloatMax \/ scale > FloatMax
                \/ tenExp > FloatMax THEN OOR
        ELSE LET mant == Norm(1, intVal * scale + fracVal, scale)
             IN  IF expNeg THEN NumDiv(mant, Num(tenExp))
                 ELSE NumMul(mant, Num(tenExp))

\* ------------------------------------------------------------------ tokens

Tok(type, value) == [type |-> type, value |-> value]
\* the result of a tokenize call: the token list, or the Error thrown
Tokens(tokens) == [ok |-> TRUE, tokens |-> tokens]
Throw(msg) == [ok |-> FALSE, msg |-> msg]

\* token.value === s  (the value of a number token is a number, never s)
ValueIs(tok, s) == tok.type # "number" /\ tok.value = s

\* The identifier run that starts at i, with the Math.xxx pattern of the
\* shared utilities and the offline simulator: [ident, i] after the run.
IdentRun(expr, i) ==
    LET j     == ScanWhile(expr, i, IdentPart)
        ident == Join(SubSeq(expr, i, j - 1))
    IN  IF ident = "Math" /\ j <= Len(expr) /\ expr[j] = "."
        THEN LET m == ScanWhile(expr, j + 1, IdentPart)
             IN  [ident |-> Join(SubSeq(expr, j + 1, m - 1)), i |-> m]
        ELSE [ident |-> ident, i |-> j]

\* --- shared utilities: SafeMathParser.tokenize

\* the inner while loop of the number rule; start is where the run began
RECURSIVE UtilsNumberRun(_, _, _, _, _)
UtilsNumberRun(expr, i, start, hasDecimal, hasExponent) ==
    IF i > Len(expr) THEN i
    ELSE IF expr[i] \in Digits
         THEN UtilsNumberRun(expr, i + 1, start, hasDecimal, hasExponent)
    ELSE IF expr[i] = "." /\ ~hasDecimal /\ ~hasExponent
         THEN UtilsNumberRun(expr, i + 1, start, TRUE, hasExponent)
    ELSE IF expr[i] \in {"e", "E"} /\ ~hasExponent /\ i > start
         THEN IF i + 1 <= Len(expr) /\ expr[i + 1] \in {"+", "-"}
              THEN UtilsNumberRun(expr, i + 2, start, hasDecimal, TRUE)
              ELSE UtilsNumberRun(expr, i + 1, start, hasDecimal, TRUE)
    ELSE i

\* /[eE][+-]?$/.test(num) || /\.$/.test(num)
MalformedNumber(num) ==
    LET n == Len(num)
    IN  \/ num[n] \in {"e", "E", "."}
        \/ n >= 2 /\ num[n] \in {"+", "-"} /\ num[n - 1] \in {"e", "E"}

RECURSIVE tokenizeUtilsFrom(_, _, _)

\* the caret rule read as a rule that drops the character and goes on
UtilsSkipCharacter(expr, i, tokens) == tokenizeUtilsFrom(expr, i + 1, tokens)
\* the end of the loop body without the caret rule
UtilsNoCaretRule(expr, i, tokens) == Throw("Unexpected character: " \o expr[i])

\* the end of the loop body: no rule took the character expr[i]
UtilsRejectCharacter(expr, i, tokens) ==
    IF expr[i] = "^" THEN Throw("Use ** or pow(a, b) for exponents, not ^")
    ELSE Throw("Unexpected character: " \o expr[i])

\* the loop of tokenize without the rule for '**' that comes before the
\* single-character operators
RECURSIVE tokenizeUtilsStarByStar(_, _, _)
tokenizeUtilsStarByStar(expr, i, tokens) ==
    IF i > Len(expr) THEN Tokens(tokens)
    ELSE LET char == expr[i] IN
    IF char \in Whitespace THEN tokenizeUtilsStarByStar(expr, i + 1, tokens)
    ELSE IF char \in NumberStart
         THEN LET j      == UtilsNumberRun(expr, i, i, FALSE, FALSE)
                  num    == SubSeq(expr, i, j - 1)
                  parsed == ParseFloat(num)
              IN  IF parsed.k = "nan" \/ MalformedNumber(num)
                  THEN Throw("Invalid number: " \o Join(num))
                  ELSE tokenizeUtilsStarByStar(expr, j, Append(tokens, Tok("number", parsed)))
    ELSE IF char \in IdentStart
         THEN LET r == IdentRun(expr, i)
              IN  tokenizeUtilsStarByStar(expr, r.i, Append(tokens, Tok("identifier", r.ident)))
    ELSE IF char \in {"+", "-", "*", "/", "%", "(", ")", ",", "."}
         THEN tokenizeUtilsStarByStar(expr, i + 1, Append(tokens, Tok("operator", char)))
    ELSE UtilsRejectCharacter(expr, i, tokens)

tokenizeUtilsFrom(expr, i, tokens) ==
    IF i > Len(expr) THEN Tokens(tokens)
    ELSE LET char == expr[i] IN
    IF char \in Whitespace THEN tokenizeUtilsFrom(expr, i + 1, tokens)
    ELSE IF char \in NumberStart
         THEN LET j      == UtilsNumberRun(expr, i, i, FALSE, FALSE)
                  num    == SubSeq(expr, i, j - 1)
                  parsed == ParseFloat(num)
              IN  IF parsed.k = "nan" \/ MalformedNumber(num)
                  THEN Throw("Invalid number: " \o Join(num))
                  ELSE tokenizeUtilsFrom(expr, j, Append(tokens, Tok("number", parsed)))
    ELSE IF char \in IdentStart
         THEN LET r == IdentRun(expr, i)
              IN  tokenizeUtilsFrom(expr, r.i, Append(tokens, Tok("identifier", r.ident)))
    ELSE IF char = "*" /\ i + 1 <= Len(expr) /\ expr[i + 1] = "*"
         THEN tokenizeUtilsFrom(expr, i + 2, Append(tokens, Tok("operator", "**")))
    ELSE IF char \in {"+", "-", "*", "/", "%", "(", ")", ",", "."}
         THEN tokenizeUtilsFrom(expr, i + 1, Append(tokens, Tok("operator", char)))
    ELSE UtilsRejectCharacter(expr, i, tokens)

tokenizeUtils(expr) == tokenizeUtilsFrom(expr, 1, <<>>)

\* --- offline simulator: SafeMathParser.tokenize

\* while (i < expr.length && /[0-9.eE+-]/.test(expr[i])) with its break
RECURSIVE OfflineNumberRun(_, _, _)
OfflineNumberRun(expr, i, start) ==
    IF i > Len(expr) \/ expr[i] \notin (Digits \cup {".", "e", "E", "+", "-"}) THEN i
    ELSE IF expr[i] \in {"+", "-"} /\ i > start /\ expr[i - 1] \notin {"e", "E"} THEN i
    ELSE OfflineNumberRun(expr, i + 1, start)

\* the end of the loop body: no rule took the character expr[i]
OfflineRejectCharacter(expr, i, tokens) ==
    IF expr[i] = "^" THEN Throw("Use Math.pow(a, b) or a ** b for exponents, not ^")
    ELSE Throw("Unexpected character: " \o expr[i])

RECURSIVE tokenizeOfflineFrom(_, _, _)
tokenizeOfflineFrom(expr, i, tokens) ==
    IF i > Len(expr) THEN Tokens(tokens)
    ELSE LET char == expr[i] IN
    IF char \in Whitespace THEN tokenizeOfflineFrom(expr, i + 1, tokens)
    ELSE IF char \in NumberStart
         THEN LET j == OfflineNumberRun(expr, i, i)
              IN  tokenizeOfflineFrom(expr, j,
                      Append(tokens, Tok("number", ParseFloat(SubSeq(expr, i, j - 1)))))
    ELSE IF char \in IdentStart
         THEN LET r == IdentRun(expr, i)
              IN  tokenizeOfflineFrom(expr, r.i, Append(tokens, Tok("identifier", r.ident)))
    ELSE IF char = "*" /\ i + 1 <= Len(expr) /\ expr[i + 1] = "*"
         THEN tokenizeOfflineFrom(expr, i + 2, Append(tokens, Tok("operator", "**")))
    ELSE IF char \in {"+", "-", "*", "/", "%", "(", ")", ",", "."}
         THEN tokenizeOfflineFrom(expr, i + 1, Append(tokens, Tok("operator", char)))
    ELSE OfflineRejectCharacter(expr, i, tokens)

tokenizeOffline(expr) == tokenizeOfflineFrom(expr, 1, <<>>)

\* --- curve visualizer: tokenize

\* the end of the loop body: no rule took the character expr[i]
VisualizerRejectCharacter(expr, i, tokens) ==
    IF expr[i] = "^" THEN Throw("Use ** or pow(a, b) for exponents, not ^")
    ELSE Throw("Unexpected character: " \o expr[i])

RECURSIVE tokenizeVisualizerFrom(_, _, _)
tokenizeVisualizerFrom(expr, i, tokens) ==
    IF i > Len(expr) THEN Tokens(tokens)
    ELSE LET char == expr[i] IN
    IF char \in Whitespace THEN tokenizeVisualizerFrom(expr, i + 1, tokens)
    ELSE IF char \in NumberStart
         THEN LET j == ScanWhile(expr, i, NumberStart)
              IN  tokenizeVisualizerFrom(expr, j,
                      Append(tokens, Tok("number", ParseFloat(SubSeq(expr, i, j - 1)))))
    ELSE IF char \in IdentStart
         THEN LET j == ScanWhile(expr, i, IdentPart)
              IN  tokenizeVisualizerFrom(expr, j,
                      Append(tokens, Tok("identifier", Join(SubSeq(expr, i, j - 1)))))
    ELSE IF char = "*" /\ i + 1 <= Len(expr) /\ expr[i + 1] = "*"
         THEN tokenizeVisualizerFrom(expr, i + 2, Append(tokens, Tok("operator", "**")))
    ELSE IF char \in {"+", "-", "*", "/", "(", ")", ",", "%"}
         THEN tokenizeVisualizerFrom(expr, i + 1, Append(tokens, Tok("operator", char)))
    ELSE VisualizerRejectCharacter(expr, i, tokens)

tokenizeVisualizer(expr) == tokenizeVisualizerFrom(expr, 1, <<>>)

\* -------------------------------------------------------------- registries

\* SafeMathParser.allowedFunctions of the shared utilities
UtilsAllowedFunctions ==
    {"abs", "ceil", "floor", "round", "trunc",
     "sqrt", "cbrt", "pow", "exp", "expm1",
     "log", "log2", "log10", "log1p",
     "sin", "cos", "tan", "asin", "acos", "atan", "atan2",
     "sinh", "cosh", "tanh", "asinh", "acosh", "atanh",
     "min", "max", "hypot", "sign", "clamp", "lerp"}
\* SafeMathParser.allowedFunctions of the offline simulator (no lerp)
OfflineAllowedFunctions == UtilsAllowedFunctions \ {"lerp"}
allowedFunctions(v) ==
    IF v = "utils" THEN UtilsAllowedFunctions ELSE OfflineAllowedFunctions
\* the keys of the functions table of the curve visualizer
VisualizerFunctions ==
    {"abs", "ceil", "floor", "round", "sqrt", "cbrt", "log", "log2", "log10",
     "exp", "sin", "cos", "tan", "asin", "acos", "atan", "sinh", "cosh",
     "tanh", "sign", "trunc", "pow", "min", "max", "clamp", "lerp"}
\* the keys of allowedConstants / constants (the same in the three copies)
ConstantNames == {"PI", "E", "LN2", "LN10", "LOG2E", "LOG10E", "SQRT2", "SQRT1_2"}
\* the object SafeMathParser of copy v as its literal builds it: the names in
\* the Set allowedFunctions and the keys of allowedConstants
SafeMathParser(v) ==
    [allowedFunctions |-> IF v = "visualizer" THEN VisualizerFunctions
                          ELSE allowedFunctions(v),
     allowedConstants |-> ConstantNames]

\* name in obj, for an object literal with the own keys `own`
In(name, own) == name \in own \/ name \in ProtoNames
\* variables[name] when name in variables
VarValue(variables, name) ==
    IF name \in DOMAIN variables THEN variables[name] ELSE ProtoValue(name)
\* allowedConstants[name] when name in allowedConstants
ConstValue(name) == IF name \in ConstantNames THEN Const(name) ELSE ProtoValue(name)

\* `${value}` of a token value: a string as it is, a number in decimal
RECURSIVE NatToString(_)
NatToString(n) ==
    LET d == CHOOSE c \in Digits : DigitVal(c) = n % 10
    IN  IF n < 10 THEN d ELSE NatToString(n \div 10) \o d
RECURSIVE FracToString(_, _)
FracToString(r, d) ==
    IF r = 0 THEN "" ELSE NatToString((10 * r) \div d) \o FracToString((10 * r) % d, d)
NumToString(x) ==
    CASE x.k = "nan" -> "NaN"
      [] x.k = "num" /\ x.d = 1 -> NatToString(x.n)
      [] x.k = "num" /\ x.d # 1 ->
            NatToString(x.n \div x.d) \o "." \o FracToString(x.n % x.d, x.d)
      [] OTHER -> "?"
TokenText(tok) == IF tok.type = "number" THEN NumToString(tok.value) ELSE tok.value

\* ---------------------------------------- SafeMathParser.evaluate (utils, offline)

\* What a parse function hands back: the value and the cursor after it, or
\* the Error it threw.  pos counts tokens from 1 (tokens[pos - 1] in the code).
\* A function that goes on after a call it made is written as an operator
\* that takes the result of that call (l, r, a, f) as its last parameter.
Ok(pos, val) == [ok |-> TRUE, pos |-> pos, val |-> val]
Value(val) == [ok |-> TRUE, val |-> val]
\* the parser's surroundings: c.v the copy, c.self the object evaluate was
\* called on (const self = this), c.tokens, c.variables
CtxOf(self, v, tokens, variables) ==
    [v |-> v, self |-> self, tokens |-> tokens, variables |-> variables]
Ctx(v, tokens, variables) == CtxOf(SafeMathParser(v), v, tokens, variables)
\* peek() is defined and has this value
PeekIs(c, pos, s) == pos <= Len(c.tokens) /\ ValueIs(c.tokens[pos], s)
\* return f at cursor pos, where f is a value or a thrown Error
Returned(pos, f) == IF ~f.ok THEN f ELSE Ok(pos, f.val)

RECURSIVE parseExpression(_, _), parseAddSub(_, _), AddSubLoop(_, _, _)
RECURSIVE parseMulDiv(_, _), MulDivLoop(_, _, _), parsePower(_, _)
RECURSIVE parseUnary(_, _), parsePrimary(_, _), parseArguments(_, _, _)

parseExpression(c, pos) == parseAddSub(c, pos)

\* left op (the rest of the chain): the loop read as a right fold
AddSubApplyRight(op, left, rest) ==
    IF ~rest.ok THEN rest
    ELSE Ok(rest.pos, IF op = "+" THEN JsAdd(left, rest.val) ELSE JsSub(left, rest.val))
AddSubStepRight(c, op, left, r) ==
    IF ~r.ok THEN r ELSE AddSubApplyRight(op, left, AddSubLoop(c, r.pos, r.val))

\* left = op === '+' ? left + right : left - right, and the loop again
AddSubStep(c, op, left, r) ==
    IF ~r.ok THEN r
    ELSE AddSubLoop(c, r.pos, IF op = "+" THEN JsAdd(left, r.val) ELSE JsSub(left, r.val))

\* the while loop of parseAddSub with a right operand that stops at '*' '/' '%'
AddSubLoopFlat(c, pos, left) ==
    IF PeekIs(c, pos, "+") \/ PeekIs(c, pos, "-")
    THEN AddSubStep(c, c.tokens[pos].value, left, parsePower(c, pos + 1))
    ELSE Ok(pos, left)

\* the while loop of parseAddSub, entered with left
AddSubLoop(c, pos, left) ==
    IF PeekIs(c, pos, "+") \/ PeekIs(c, pos, "-")
    THEN AddSubStep(c, c.tokens[pos].value, left, parseMulDiv(c, pos + 1))
    ELSE Ok(pos, left)

AddSubStart(c, l) == IF ~l.ok THEN l ELSE AddSubLoop(c, l.pos, l.val)

parseAddSub(c, pos) == AddSubStart(c, parseMulDiv(c, pos))

MulDivStep(c, op, left, r) ==
    IF ~r.ok THEN r
    ELSE MulDivLoop(c, r.pos,
             IF op = "*" THEN JsMul(left, r.val)
             ELSE IF op = "/" THEN JsDiv(left, r.val)
             ELSE JsMod(left, r.val))

\* the while loop of parseMulDiv, entered with left
MulDivLoop(c, pos, left) ==
    IF PeekIs(c, pos, "*") \/ PeekIs(c, pos, "/") \/ PeekIs(c, pos, "%")
    THEN MulDivStep(c, c.tokens[pos].value, left, parsePower(c, pos + 1))
    ELSE Ok(pos, left)

MulDivStart(c, l) == IF ~l.ok THEN l ELSE MulDivLoop(c, l.pos, l.val)

parseMulDiv(c, pos) == MulDivStart(c, parsePower(c, pos))

\* left = Math.pow(left, right)
PowerApply(l, r) == IF ~r.ok THEN r ELSE Ok(r.pos, JsPow(l.val, r.val))

\* parsePower read as a loop like those of the other levels: the right-hand
\* side of '**' is a unary, and the result is the base of the next '**'
RECURSIVE PowerRestLoop(_, _)
PowerRestLoop(c, l) ==
    IF ~l.ok THEN l
    ELSE IF PeekIs(c, l.pos, "**")
    THEN PowerRestLoop(c, PowerApply(l, parseUnary(c, l.pos + 1)))
    ELSE l

\* parsePower after let left = parseUnary()
PowerRest(c, l) ==
    IF ~l.ok THEN l
    ELSE IF PeekIs(c, l.pos, "**") THEN PowerApply(l, parsePower(c, l.pos + 1))
    ELSE l

parsePower(c, pos) == PowerRest(c, parseUnary(c, pos))

\* return op === '-' ? -operand : operand
UnaryApply(op, r) ==
    IF ~r.ok THEN r
    ELSE IF op = "-" THEN Ok(r.pos, JsNeg(r.val))
    ELSE r

\* parseUnary with a sign that takes a whole power as its operand
parseUnaryOfPower(c, pos) ==
    IF PeekIs(c, pos, "+") \/ PeekIs(c, pos, "-")
    THEN UnaryApply(c.tokens[pos].value, parsePower(c, pos + 1))
    ELSE parsePrimary(c, pos)

parseUnary(c, pos) ==
    IF PeekIs(c, pos, "+") \/ PeekIs(c, pos, "-")
    THEN UnaryApply(c.tokens[pos].value, parseUnary(c, pos + 1))
    ELSE parsePrimary(c, pos)

\* args.push(r) and the while loop on ',': [ok, pos, args]
ArgumentsNext(c, args, r) ==
    IF ~r.ok THEN r
    ELSE IF PeekIs(c, r.pos, ",")
    THEN parseArguments(c, r.pos + 1, Append(args, r.val))
    ELSE [ok |-> TRUE, pos |-> r.pos, args |-> Append(args, r.val)]

parseArguments(c, pos, args) == ArgumentsNext(c, args, parseExpression(c, pos))

\* "Validate and execute function"
CallFunction(c, name, args) ==
    IF name \notin c.self.allowedFunctions
    THEN Throw("Unknown or disallowed function: " \o name)
    ELSE IF name = "clamp"
    THEN IF Len(args) # 3
         THEN Throw("clamp requires 3 arguments: clamp(value, min, max)")
         ELSE Value(Min2(Max2(ToNum(args[1]), ToNum(args[2])), ToNum(args[3])))
    ELSE IF c.v = "utils" /\ name = "lerp"
    THEN IF Len(args) # 3
         THEN Throw("lerp requires 3 arguments: lerp(a, b, t)")
         ELSE Value(JsAdd(args[1], JsMul(JsSub(args[2], args[1]), args[3])))
    ELSE Value(MathCall(name, args))

\* the bare identifier: variable, then Math constant
ResolveIdentifier(c, name) ==
    IF In(name, DOMAIN c.variables) THEN Value(VarValue(c.variables, name))
    ELSE IF In(name, c.self.allowedConstants) THEN Value(ConstValue(name))
    ELSE Throw("Unknown variable or constant: " \o name)

\* a parenthesis that is closed by whatever follows its inner expression
CloseParenthesisLenient(c, r) ==
    IF ~r.ok THEN r
    ELSE IF ~PeekIs(c, r.pos, ")") THEN Ok(r.pos, r.val)
    ELSE Ok(r.pos + 1, r.val)

\* the parenthesized expression after const result = parseExpression()
CloseParenthesis(c, r) ==
    IF ~r.ok THEN r
    ELSE IF ~PeekIs(c, r.pos, ")") THEN Throw("Missing closing parenthesis")
    ELSE Ok(r.pos + 1, r.val)

\* the function call after its argument list a has been parsed
FinishCall(c, name, a) ==
    IF ~a.ok THEN a
    ELSE IF ~PeekIs(c, a.pos, ")")
    THEN Throw("Missing closing parenthesis for function call")
    ELSE Returned(a.pos + 1, CallFunction(c, name, a.args))

parsePrimary(c, pos) ==
    IF pos > Len(c.tokens) THEN Throw("Unexpected end of expression")
    ELSE IF c.tokens[pos].type = "number" THEN Ok(pos + 1, c.tokens[pos].value)
    ELSE IF ValueIs(c.tokens[pos], "(")
    THEN CloseParenthesis(c, parseExpression(c, pos + 1))
    ELSE IF c.tokens[pos].type = "identifier"
    THEN IF PeekIs(c, pos + 1, "(")
         THEN IF pos + 2 <= Len(c.tokens) /\ ~ValueIs(c.tokens[pos + 2], ")")
              THEN FinishCall(c, c.tokens[pos].value, parseArguments(c, pos + 2, <<>>))
              ELSE FinishCall(c, c.tokens[pos].value,
                              [ok |-> TRUE, pos |-> pos + 2, args |-> <<>>])
         ELSE Returned(pos + 1, ResolveIdentifier(c, c.tokens[pos].value))
    ELSE Throw("Unexpected token: " \o c.tokens[pos].value)

\* the end of evaluate without the test pos < tokens.length
FinishEvaluateAnywhere(tokens, r) == IF ~r.ok THEN r ELSE Value(r.val)

\* the end of evaluate, after const result = parseExpression()
FinishEvaluate(tokens, r) ==
    IF ~r.ok THEN r
    ELSE IF r.pos <= Len(tokens)
    THEN Throw("Unexpected token: " \o TokenText(tokens[r.pos]))
    ELSE Value(r.val)

\* evaluate with an empty token list read as the number 0
EvaluateTokensEmptyIsZero(v, t, variables) ==
    IF ~t.ok THEN t
    ELSE IF t.tokens = <<>> THEN Value(Num(0))
    ELSE FinishEvaluate(t.tokens, parseExpression(Ctx(v, t.tokens, variables), 1))

\* evaluate after const tokens = this.tokenize(expr)
EvaluateTokens(v, t, variables) ==
    IF ~t.ok THEN t
    ELSE FinishEvaluate(t.tokens, parseExpression(Ctx(v, t.tokens, variables), 1))

tokenize(v, expr) == IF v = "utils" THEN tokenizeUtils(expr) ELSE tokenizeOffline(expr)

\* SafeMathParser.evaluate(expr, variables): [ok, val] or the Error thrown
evaluate(v, expr, variables) == EvaluateTokens(v, tokenize(v, expr), variables)

\* evaluate(expr, variables) of the shared utilities, called on the object
\* self: what it returns or throws
evaluateOn(self, expr, variables) ==
    LET t == tokenizeUtils(expr)
    IN  IF ~t.ok THEN t
        ELSE FinishEvaluate(t.tokens,
                            parseExpression(CtxOf(self, "utils", t.tokens, variables), 1))

\* ------------------------------------------------ safeEval (curve visualizer)

\* peek() && peek().type === 'operator' && peek().value === s
PeekOp(c, pos, s) ==
    pos <= Len(c.tokens) /\ c.tokens[pos].type = "operator" /\ c.tokens[pos].value = s

RECURSIVE VisParseExpression(_, _), parseAdditive(_, _), AdditiveLoop(_, _, _)
RECURSIVE parseMultiplicative(_, _), MultiplicativeLoop(_, _, _), VisParsePower(_, _)
RECURSIVE VisParseUnary(_, _), VisParsePrimary(_, _), VisParseArguments(_, _, _)

VisParseExpression(c, pos) == parseAdditive(c, pos)

AdditiveStep(c, op, left, r) ==
    IF ~r.ok THEN r
    ELSE AdditiveLoop(c, r.pos,
             IF op = "+" THEN JsAdd(left, r.val) ELSE JsSub(left, r.val))

AdditiveLoop(c, pos, left) ==
    IF PeekOp(c, pos, "+") \/ PeekOp(c, pos, "-")
    THEN AdditiveStep(c, c.tokens[pos].value, left, parseMultiplicative(c, pos + 1))
    ELSE Ok(pos, left)

AdditiveStart(c, l) == IF ~l.ok THEN l ELSE AdditiveLoop(c, l.pos, l.val)

parseAdditive(c, pos) == AdditiveStart(c, parseMultiplicative(c, pos))

MultiplicativeStep(c, op, left, r) ==
    IF ~r.ok THEN r
    ELSE MultiplicativeLoop(c, r.pos,
             IF op = "*" THEN JsMul(left, r.val)
             ELSE IF op = "/" THEN JsDiv(left, r.val)
             ELSE JsMod(left, r.val))

MultiplicativeLoop(c, pos, left) ==
    IF PeekOp(c, pos, "*") \/ PeekOp(c, pos, "/") \/ PeekOp(c, pos, "%")
    THEN MultiplicativeStep(c, c.tokens[pos].value, left, VisParsePower(c, pos + 1))
    ELSE Ok(pos, left)

MultiplicativeStart(c, l) == IF ~l.ok THEN l ELSE MultiplicativeLoop(c, l.pos, l.val)

parseMultiplicative(c, pos) == MultiplicativeStart(c, VisParsePower(c, pos))

VisPowerRest(c, l) ==
    IF ~l.ok THEN l
    ELSE IF PeekOp(c, l.pos, "**") THEN PowerApply(l, VisParsePower(c, l.pos + 1))
    ELSE l

VisParsePower(c, pos) == VisPowerRest(c, VisParseUnary(c, pos))

VisParseUnary(c, pos) ==
    IF PeekOp(c, pos, "+") \/ PeekOp(c, pos, "-")
    THEN UnaryApply(c.tokens[pos].value, VisParseUnary(c, pos + 1))
    ELSE VisParsePrimary(c, pos)

VisArgumentsNext(c, args, r) ==
    IF ~r.ok THEN r
    ELSE IF PeekIs(c, r.pos, ",")
    THEN VisParseArguments(c, r.pos + 1, Append(args, r.val))
    ELSE [ok |-> TRUE, pos |-> r.pos, args |-> Append(args, r.val)]

VisParseArguments(c, pos, args) == VisArgumentsNext(c, args, VisParseExpression(c, pos))

\* functions[funcName]: an own key of the table, or what the object literal
\* inherits from Object.prototype; "none" when the lookup gives undefined
LookupFunction(funcName) ==
    IF funcName \in VisualizerFunctions THEN [k |-> "math", name |-> funcName]
    ELSE IF funcName \in ProtoNames THEN ProtoValue(funcName)
    ELSE [k |-> "none"]

\* a value read as a parameter of the table's arrow functions
ArgValue(args, i) == IF i <= Len(args) THEN args[i] ELSE [k |-> "undefined"]

\* func(...args), called without a receiver in strict mode (this is undefined)
Invoke(func, args) ==
    CASE func.k = "math" /\ func.name = "clamp" ->
            Value(Min2(Max2(Arg(args, 1), Arg(args, 2)), Arg(args, 3)))
      [] func.k = "math" /\ func.name = "lerp" ->
            Value(JsAdd(ArgValue(args, 1),
                        JsMul(JsSub(ArgValue(args, 2), ArgValue(args, 1)),
                              ArgValue(args, 3))))
      [] func.k = "math" /\ func.name \notin {"clamp", "lerp"} ->
            Value(MathCall(func.name, args))
      \* Object(value)
      [] func.k = "fn" /\ func.name = "constructor" ->
            Value(IF Len(args) = 0 THEN Obj
                  ELSE IF IsNum(args[1]) THEN Box(args[1])
                  ELSE args[1])
      \* Object.prototype.toString.call(undefined)
      [] func.k = "fn" /\ func.name = "toString" -> Value(Str)
      \* valueOf, hasOwnProperty: ToObject(undefined) throws
      [] func.k = "fn" /\ func.name \in {"valueOf", "hasOwnProperty"} ->
            Throw("Cannot convert undefined or null to object")
      \* Object.prototype is not callable
      [] func.k = "obj" -> Throw("func is not a function")

\* the bare identifier: constant, then variable (own keys only)
VisResolveIdentifier(c, name) ==
    IF name \in ConstantNames THEN Value(Const(name))
    ELSE IF name \in DOMAIN c.variables THEN Value(c.variables[name])
    ELSE Throw("Unknown variable: " \o name)

\* the function call after its argument list a has been parsed
VisFinishCall(c, func, a) ==
    IF ~a.ok THEN a
    ELSE IF ~PeekIs(c, a.pos, ")")
    THEN Throw("Missing closing parenthesis in function call")
    ELSE Returned(a.pos + 1, Invoke(func, a.args))

\* the function call after consume() of '(' : the lookup, then the arguments
VisCall(c, pos, name) ==
    IF name = "Math" /\ PeekOp(c, pos + 2, ".")
    THEN Throw("Use function names directly (e.g., \"pow\" not \"Math.pow\")")
    ELSE IF LookupFunction(name).k = "none" THEN Throw("Unknown function: " \o name)
    ELSE IF pos + 2 <= Len(c.tokens) /\ ~ValueIs(c.tokens[pos + 2], ")")
    THEN VisFinishCall(c, LookupFunction(name), VisParseArguments(c, pos + 2, <<>>))
    ELSE VisFinishCall(c, LookupFunction(name),
                       [ok |-> TRUE, pos |-> pos + 2, args |-> <<>>])

VisParsePrimary(c, pos) ==
    IF pos > Len(c.tokens) THEN Throw("Unexpected end of expression")
    ELSE IF c.tokens[pos].type = "number" THEN Ok(pos + 1, c.tokens[pos].value)
    ELSE IF c.tokens[pos].type = "operator" /\ c.tokens[pos].value = "("
    THEN CloseParenthesis(c, VisParseExpression(c, pos + 1))
    ELSE IF c.tokens[pos].type = "identifier"
    THEN IF PeekOp(c, pos + 1, "(")
         THEN VisCall(c, pos, c.tokens[pos].value)
         ELSE Returned(pos + 1, VisResolveIdentifier(c, c.tokens[pos].value))
    ELSE Throw("Unexpected token: " \o c.tokens[pos].value)

\* safeEval after const tokens = tokenize(expr)
VisEvaluateTokens(t, variables) ==
    IF ~t.ok THEN t
    ELSE FinishEvaluate(t.tokens,
                        VisParseExpression(Ctx("visualizer", t.tokens, variables), 1))

\* safeEval(expr, variables) of the curve visualizer
safeEvalVisualizer(expr, variables) ==
    VisEvaluateTokens(tokenizeVisualizer(expr), variables)

\* ------------------------------------------------------------ entry points

\* typeof result !== 'number' || isNaN(result) || !isFinite(result)
NotValidNumber(result) == ~TypeofNumber(result) \/ ~IsFiniteNum(result)

\* safeEval after const result = SafeMathParser.evaluate(expr, vars)
ValidateResult(result) ==
    IF ~result.ok THEN result
    ELSE IF NotValidNumber(result.val)
    THEN Throw("Expression must return a valid number")
    ELSE Value(result.val)

\* BelforgeUtils.safeEval(expr, vars)
safeEvalUtils(expr, vars) == ValidateResult(evaluate("utils", expr, vars))

\* the try block of evaluateFormula after SafeMathParser.evaluate
ValidateFormula(result) ==
    IF ~result.ok THEN result
    ELSE IF NotValidNumber(result.val)
    THEN Throw("Formula must return a valid number")
    ELSE Value(Max2(Zero(1), result.val))

\* catch (error) { throw new Error(`Formula error: ${error.message}`) }
CatchFormulaError(r) == IF ~r.ok THEN Throw("Formula error: " \o r.msg) ELSE r

\* evaluateFormula(formula, vars) of the offline simulator
evaluateFormula(formula, vars) ==
    CatchFormulaError(ValidateFormula(evaluate("offline", formula, vars)))

\* ------------------------------------------------------------ the system

Variants == {"utils", "offline", "visualizer"}

VARIABLES
    expr,       \* the formula text handed to the entry points
    variables,  \* the variable bindings handed with it
    src,        \* how the formula was written (its operands and operators)
    out,        \* per copy: what its entry point did with (expr, variables)
    parser,     \* the object SafeMathParser of the shared utilities
    calls,      \* the calls of SafeMathParser.evaluate made so far, in order
    now,        \* the clock of the event loop, in ms
    delay,      \* the wait of debounce(func, wait), the limit of throttle(func, limit)
    timeout,    \* let timeout of debounce: the id of the last timer, 0 for undefined
    inThrottle, \* let inThrottle of throttle
    timers,     \* the timers of the event loop that are set and have not run
    ran,        \* the executions of func so far, in order
    asked,      \* the calls of the debounced or throttled function so far
    curves,     \* let curves of the curve visualizer: the ids of the curves, in order
    nextCurveId, \* let nextCurveId
    logScale,   \* let logScale
    viewMode,   \* let viewMode
    logScaleChecked, \* dom.logScaleToggle.checked
    toast,           \* toast.textContent
    sim,        \* the call of runSimulation of the offline simulator: its locals
    packer      \* the sprite-sheet packer: its import modal, handleFiles calls and sprites

callVars == <<parser, calls>>
timerVars == <<now, delay, timeout, inThrottle, timers, ran, asked>>
uiVars == <<curves, nextCurveId, logScale, viewMode, logScaleChecked, toast>>
pageVars == <<uiVars, sim, packer>>
vars == <<expr, variables, src, out, callVars, timerVars, pageVars>>

\* no evaluate call has been logged, and the parser object is as built
NoCalls == parser = SafeMathParser("utils") /\ calls = <<>>
\* no debounced or throttled function exists
NoTimers ==
    /\ now = 0 /\ delay = 0 /\ timeout = 0 /\ inThrottle = FALSE
    /\ timers = {} /\ ran = <<>> /\ asked = <<>>
\* the state of the curve visualizer as its declarations leave it
NoCurves ==
    /\ curves = <<>> /\ nextCurveId = 1
    /\ logScale = FALSE /\ viewMode = "absolute" /\ logScaleChecked = FALSE
    /\ toast = ""
\* runSimulation has not been called
NoSim == sim = [phase |-> "idle"]
\* the sprite-sheet packer has not been loaded
NoPacker == packer = [loaded |-> FALSE]
\* no page has done anything yet
NoPage == NoCurves /\ NoSim /\ NoPacker

NotCalled == [called |-> FALSE]
\* tokens: what tokenize gave; parsed: what the parser's evaluate gave;
\* ret: what the entry point returned or threw
Called(tokens, parsed, ret) ==
    [called |-> TRUE, tokens |-> tokens, parsed |-> parsed, ret |-> ret]

\* BelforgeUtils.safeEval(expr, variables)
CallSafeEvalUtils ==
    /\ ~out["utils"].called
    /\ out' = [out EXCEPT !["utils"] =
                  Called(tokenizeUtils(expr), evaluate("utils", expr, variables),
                         safeEvalUtils(expr, variables))]
    /\ UNCHANGED <<expr, variables, src, callVars, timerVars, pageVars>>

\* evaluateFormula(expr, variables) of the offline simulator
CallEvaluateFormula ==
    /\ ~out["offline"].called
    /\ out' = [out EXCEPT !["offline"] =
                  Called(tokenizeOffline(expr), evaluate("offline", expr, variables),
                         evaluateFormula(expr, variables))]
    /\ UNCHANGED <<expr, variables, src, callVars, timerVars, pageVars>>

\* safeEval(expr, variables) of the curve visualizer
CallSafeEvalVisualizer ==
    /\ ~out["visualizer"].called
    /\ out' = [out EXCEPT !["visualizer"] =
                  Called(tokenizeVisualizer(expr), safeEvalVisualizer(expr, variables),
                         safeEvalVisualizer(expr, variables))]
    /\ UNCHANGED <<expr, variables, src, callVars, timerVars, pageVars>>

Next == CallSafeEvalUtils \/ CallEvaluateFormula \/ CallSafeEvalVisualizer

\* An input stays inside the exact range of the model: no copy computes a
\* double the model cannot follow.
Exact(r) == r.ok => ~(r.val.k = "oor" \/ (r.val.k = "box" /\ r.val.v.k = "oor"))
InRange(e, b) ==
    /\ Exact(evaluate("utils", e, b))
    /\ Exact(evaluate("offline", e, b))
    /\ Exact(safeEvalVisualizer(e, b))

InitWith(inputs) ==
    \E i \in inputs :
        /\ InRange(i.expr, i.variables)
        /\ expr = i.expr
        /\ variables = i.variables
        /\ src = i.src
        /\ out = [v \in Variants |-> NotCalled]
        /\ NoCalls
        /\ NoTimers
        /\ NoPage

\* --------------------------------------------------------------- inputs

\* Largest integer literal written in a formula.
MaxLit == 3
\* Most binary operators in a chain of operators of one precedence level.
MaxChain == 2

NoBindings == [n \in {} |-> Num(0)]

RECURSIVE NatChars(_)
NatChars(n) ==
    LET d == CHOOSE c \in Digits : DigitVal(c) = n % 10
    IN  IF n < 10 THEN <<d>> ELSE Append(NatChars(n \div 10), d)

\* ---------------------------------------- chains of operators of one level

\* An operand of a chain: an integer literal with an optional sign.
Operands(signs) == [sign : signs, lit : 0..MaxLit]
OperandChars(o) == (IF o.sign = "" THEN <<>> ELSE <<o.sign>>) \o NatChars(o.lit)
OperatorChars(op) == IF op = "**" THEN <<" ", "*", "*", " ">> ELSE <<" ", op, " ">>

\* operands[1] ops[1] operands[2] ... as formula text
RECURSIVE ChainChars(_, _)
ChainChars(operands, ops) ==
    IF Len(ops) = 0 THEN OperandChars(operands[1])
    ELSE OperandChars(operands[1]) \o OperatorChars(ops[1])
         \o ChainChars(Tail(operands), Tail(ops))

Chains(level, signs, lengths) ==
    UNION {[operands : [1..(k + 1) -> Operands(signs)], ops : [1..k -> level]]
           : k \in lengths}
ChainInputs(maxChain) ==
    {[expr |-> ChainChars(c.operands, c.ops), variables |-> NoBindings,
      src |-> [kind |-> "chain", operands |-> c.operands, ops |-> c.ops]]
     : c \in Chains({"**"}, {"", "-", "+"}, {1})
             \cup Chains({"**"}, {"", "-"}, 2..maxChain)
             \cup Chains({"+", "-"}, {""}, 1..maxChain)
             \cup Chains({"*", "/", "%"}, {""}, 1..maxChain)}

InitChain == InitWith(ChainInputs(MaxChain))
SpecChain == InitChain /\ [][Next]_vars

\* the number an operand denotes: its sign applied to its literal
OperandValue(o) == IF o.sign = "-" THEN NumNeg(Num(o.lit)) ELSE Num(o.lit)
\* a op b on numbers
Apply(op, a, b) ==
    CASE op = "+" -> NumAdd(a, b)
      [] op = "-" -> NumSub(a, b)
      [] op = "*" -> NumMul(a, b)
      [] op = "/" -> NumDiv(a, b)
      [] op = "%" -> NumMod(a, b)
      [] op = "**" -> NumPow(a, b)
\* a1 op1 (a2 op2 (a3 ...))
RECURSIVE FoldRight(_, _)
FoldRight(operands, ops) ==
    IF Len(ops) = 0 THEN OperandValue(operands[1])
    ELSE Apply(ops[1], OperandValue(operands[1]), FoldRight(Tail(operands), Tail(ops)))
\* ((acc op1 a1) op2 a2) ...
RECURSIVE FoldLeft(_, _, _)
FoldLeft(acc, operands, ops) ==
    IF Len(ops) = 0 THEN acc
    ELSE FoldLeft(Apply(ops[1], acc, OperandValue(operands[1])), Tail(operands), Tail(ops))
LeftValue(operands, ops) == FoldLeft(OperandValue(operands[1]), Tail(operands), ops)

IsChainOf(level) ==
    src.kind = "chain" /\ \A k \in 1..Len(src.ops) : src.ops[k] \in level

\* C5: the power operator is right-associative.  In each copy, a chain
\* a1 ** a2 ** ... ** an of any length evaluates to a1 ** (a2 ** (... ** an)).
C5_PowerRightAssociative ==
    \A v \in Variants :
        (out[v].called /\ IsChainOf({"**"}))
            => out[v].parsed = Value(FoldRight(src.operands, src.ops))

\* '2 ** 3 ** 2' has been evaluated by the three copies and each returned
\* 512 = 2 ** (3 ** 2), where (2 ** 3) ** 2 is 64.
C5_Witness ==
    /\ Join(expr) = "2 ** 3 ** 2"
    /\ LeftValue(src.operands, src.ops) = Num(64)
    /\ \A v \in Variants : out[v].called /\ out[v].ret = Value(Num(512))

\* C6: the binary operators + - * / % are left-associative.  In each copy, a
\* chain of operators of one level (+ and -, or * / and %), mixed or not, is
\* folded strictly from left to right.
C6_LeftAssociative ==
    \A v \in Variants :
        (out[v].called /\ (IsChainOf({"+", "-"}) \/ IsChainOf({"*", "/", "%"})))
            => out[v].parsed = Value(LeftValue(src.operands, src.ops))

\* '3 - 2 + 1' has been evaluated by the three copies and each returned
\* 2 = (3 - 2) + 1, where 3 - (2 + 1) is 0.
C6_Witness ==
    /\ Join(expr) = "3 - 2 + 1"
    /\ FoldRight(src.operands, src.ops) = Num(0)
    /\ \A v \in Variants : out[v].called /\ out[v].ret = Value(Num(2))

\* C8: a sign written directly before the base of '**' is applied to the
\* base before the exponentiation, and the exponent may carry a sign of its
\* own: 's a ** t b' evaluates to (s a) ** (t b) in the shared utilities and
\* in the offline simulator (and in the curve visualizer).
C8_SignBindsTighterThanPower ==
    \A v \in Variants :
        (out[v].called /\ IsChainOf({"**"}) /\ Len(src.ops) = 1)
            => out[v].parsed =
                   Value(NumPow(OperandValue(src.operands[1]),
                                OperandValue(src.operands[2])))

\* '-2 ** 2' has been evaluated by the three copies and each returned
\* 4 = (-2) ** 2, where -(2 ** 2) is -4.
C8_Witness ==
    /\ Join(expr) = "-2 ** 2"
    /\ \A v \in Variants : out[v].called /\ out[v].ret = Value(Num(4))

\* ------------------------------------------------- arithmetic expressions

\* Most binary operators in an arithmetic expression.
MaxOps == 2
\* Deepest nesting of parentheses in an arithmetic expression.
MaxNest == 1

ArithOps == {"+", "-", "*", "/", "**"}
Lits == {NatToString(n) : n \in 1..MaxLit}
LitValue(l) == CHOOSE n \in 1..MaxLit : NatToString(n) = l

\* The well-formed expressions, each a sequence of items: a literal, an
\* operator, "(" or ")".  Atoms(n, d): a literal or a parenthesized
\* expression, with n operators in it and parentheses nested at most d deep;
\* Exprs(n, d): atoms joined by operators.
RECURSIVE Atoms(_, _), Exprs(_, _)
Atoms(n, d) ==
    (IF n = 0 THEN {<<l>> : l \in Lits} ELSE {})
    \cup (IF d > 0 THEN {<<"(">> \o e \o <<")">> : e \in Exprs(n, d - 1)} ELSE {})
Exprs(n, d) ==
    Atoms(n, d)
    \cup UNION {{a \o <<op>> \o e : a \in Atoms(k, d), op \in ArithOps,
                                    e \in Exprs(n - 1 - k, d)}
                : k \in 0..(n - 1)}

\* the formula text of a sequence of items: '(2 + 3) ** 2'
ItemChars(item) ==
    CASE item = "**" -> <<" ", "*", "*", " ">>
      [] item \in {"+", "-", "*", "/"} -> <<" ", item, " ">>
      [] item \in {"(", ")"} -> <<item>>
      [] OTHER -> NatChars(LitValue(item))
RECURSIVE ItemsChars(_)
ItemsChars(items) ==
    IF items = <<>> THEN <<>> ELSE ItemChars(Head(items)) \o ItemsChars(Tail(items))

ArithInputs(maxOps, maxNest) ==
    {[expr |-> ItemsChars(e), variables |-> NoBindings,
      src |-> [kind |-> "arith", items |-> e]]
     : e \in UNION {Exprs(n, maxNest) : n \in 0..maxOps}}

InitArith == InitWith(ArithInputs(MaxOps, MaxNest))
SpecArith == InitArith /\ [][Next]_vars

\* The reference evaluator, with the precedence made explicit: an expression
\* is split at its last operator of the loosest level that is outside every
\* parenthesis (at its first one for '**'), a parenthesized expression is
\* the expression inside, and what remains is a literal.
RECURSIVE DepthAt(_, _)
DepthAt(items, i) ==
    IF i = 1 THEN 0
    ELSE DepthAt(items, i - 1)
         + (IF items[i - 1] = "(" THEN 1 ELSE IF items[i - 1] = ")" THEN -1 ELSE 0)
TopLevel(items, ops) ==
    {i \in 1..Len(items) : items[i] \in ops /\ DepthAt(items, i) = 0}
Last(S) == CHOOSE x \in S : \A y \in S : y <= x
First(S) == CHOOSE x \in S : \A y \in S : x <= y
RECURSIVE RefEval(_), RefSplit(_, _)
RefSplit(items, i) ==
    Apply(items[i], RefEval(SubSeq(items, 1, i - 1)),
                    RefEval(SubSeq(items, i + 1, Len(items))))
RefEval(items) ==
    IF TopLevel(items, {"+", "-"}) # {}
    THEN RefSplit(items, Last(TopLevel(items, {"+", "-"})))
    ELSE IF TopLevel(items, {"*", "/"}) # {}
    THEN RefSplit(items, Last(TopLevel(items, {"*", "/"})))
    ELSE IF TopLevel(items, {"**"}) # {}
    THEN RefSplit(items, First(TopLevel(items, {"**"})))
    ELSE IF items[1] = "("
    THEN RefEval(SubSeq(items, 2, Len(items) - 1))
    ELSE Num(LitValue(items[1]))

\* C7: for every well-formed expression of literals, parentheses and the
\* operators + - * / ** (literals up to MaxLit, up to MaxOps operators,
\* parentheses nested up to MaxNest deep), what each copy's evaluate returns
\* is the value of the reference evaluator with explicit precedence.
C7_MatchesReferenceEvaluator ==
    \A v \in Variants :
        (out[v].called /\ src.kind = "arith")
            => out[v].parsed = Value(RefEval(src.items))

\* '(1 + 2) ** 2' has been evaluated by the three copies and each returned
\* 9, the value of the reference evaluator.
C7_Witness ==
    /\ Join(expr) = "(1 + 2) ** 2"
    /\ RefEval(src.items) = Num(9)
    /\ \A v \in Variants : out[v].called /\ out[v].ret = Value(Num(9))

\* ------------------------------------------------- identifiers and calls

\* Most arguments written in a call.
MaxArgs == 2

\* The identifiers written in formulas: variables of the tools, names that
\* are bound nowhere, Math constants, names every object inherits from
\* Object.prototype, and function names inside and outside the registries.
Names ==
    {<<"b", "a", "s", "e">>, <<"m", "i", "s", "s", "i", "n", "g">>, <<"E">>,
     <<"P", "I">>, <<"t", "o", "S", "t", "r", "i", "n", "g">>,
     <<"c", "o", "n", "s", "t", "r", "u", "c", "t", "o", "r">>,
     <<"v", "a", "l", "u", "e", "O", "f">>,
     <<"h", "a", "s", "O", "w", "n", "P", "r", "o", "p", "e", "r", "t", "y">>,
     <<"_", "_", "p", "r", "o", "t", "o", "_", "_">>, <<"s", "q", "r", "t">>,
     <<"a", "b", "s">>, <<"m", "a", "x">>, <<"l", "o", "g">>,
     <<"l", "e", "r", "p">>, <<"h", "y", "p", "o", "t">>,
     <<"e", "v", "a", "l">>}

\* the variable bindings the callers pass
Bindings ==
    {NoBindings,
     [n \in {"base", "level"} |-> IF n = "base" THEN Num(10) ELSE Num(5)],
     [n \in {"E"} |-> Num(5)],
     [n \in {"PI"} |-> Num(1)]}

\* the formula with the identifier n: 'n', 'n ** 0', 'n + 1', 'base * n'
BareChars(kind, n) ==
    CASE kind = "bare" -> n
      [] kind = "pow0" -> n \o <<" ", "*", "*", " ", "0">>
      [] kind = "plus" -> n \o <<" ", "+", " ", "1">>
      [] kind = "times" -> <<"b", "a", "s", "e", " ", "*", " ">> \o n
BareInputs ==
    {[expr |-> BareChars(kind, n), variables |-> b,
      src |-> [kind |-> kind, name |-> Join(n)]]
     : kind \in {"bare", "pow0", "plus", "times"}, n \in Names, b \in Bindings}

\* the argument lists of integer literals: '', '2', '2, 3'
ArgLists(maxArgs) == UNION {[1..k -> 0..MaxLit] : k \in 0..maxArgs}
RECURSIVE ArgChars(_)
ArgChars(args) ==
    IF Len(args) = 0 THEN <<>>
    ELSE IF Len(args) = 1 THEN NatChars(args[1])
    ELSE NatChars(args[1]) \o <<",", " ">> \o ArgChars(Tail(args))
\* the formula 'n(args)'
CallInputs(maxArgs) ==
    {[expr |-> n \o <<"(">> \o ArgChars(args) \o <<")">>, variables |-> b,
      src |-> [kind |-> "call", name |-> Join(n), args |-> args]]
     : n \in Names, args \in ArgLists(maxArgs), b \in Bindings}

\* the formulas 'a/b' and 'a%b' with a signed dividend: '1/0', '-1/0', '0/0'
QuotientInputs ==
    {[expr |-> o.sign \o NatChars(o.a) \o <<o.op>> \o NatChars(o.b),
      variables |-> NoBindings,
      src |-> [kind |-> "quotient", name |-> o.op]]
     : o \in [sign : {<<>>, <<"-">>}, a : 0..MaxLit, op : {"/", "%"}, b : 0..MaxLit]}

IdentInputs(maxArgs) == BareInputs \cup CallInputs(maxArgs) \cup QuotientInputs

InitIdent == InitWith(IdentInputs(MaxArgs))
SpecIdent == InitIdent /\ [][Next]_vars

\* the function names of each copy's registry
Registry(v) == IF v = "visualizer" THEN VisualizerFunctions ELSE allowedFunctions(v)

\* C1: each entry point returns a finite number or fails: a value it returns
\* is a finite number, and when the parser's value is NaN, an infinity or
\* not a number it fails with 'Expression must return a valid number'.
C1_FiniteOrFail ==
    \A v \in Variants :
        out[v].called =>
            /\ out[v].ret.ok => ~NotValidNumber(out[v].ret.val)
            /\ (out[v].parsed.ok /\ NotValidNumber(out[v].parsed.val))
                   => out[v].ret = Throw("Expression must return a valid number")

\* '1/0' has been handed to safeEval of the curve visualizer, which
\* returned Infinity to the caller.
C1_Witness ==
    /\ Join(expr) = "1/0"
    /\ out["visualizer"].called
    /\ out["visualizer"].ret = Value(Inf(1))

\* C2: in each copy, name(args) with a name outside the copy's registry and
\* arguments that evaluate is not invoked: it fails with
\* 'Unknown or disallowed function: <name>'.
C2_UnregisteredNeverInvoked ==
    \A v \in Variants :
        (out[v].called /\ src.kind = "call" /\ src.name \notin Registry(v))
            => out[v].parsed = Throw("Unknown or disallowed function: " \o src.name)

\* 'constructor(2)' has been handed to safeEval of the curve visualizer,
\* which called Object(2) and returned the Number object it built.
C2_Witness ==
    /\ Join(expr) = "constructor(2)"
    /\ out["visualizer"].called
    /\ out["visualizer"].ret = Value(Box(Num(2)))

\* C3: a bare identifier that is neither a key of the bindings nor a
\* registered constant makes evaluate of the shared utilities and of the
\* offline simulator fail with 'Unknown variable or constant: <name>', alone
\* or inside a larger expression.
C3_UnknownIdentifierFails ==
    \A v \in {"utils", "offline"} :
        (/\ out[v].called
         /\ src.kind \in {"bare", "pow0", "plus", "times"}
         /\ src.kind = "times" => "base" \in DOMAIN variables
         /\ src.name \notin DOMAIN variables
         /\ src.name \notin ConstantNames)
            => out[v].parsed = Throw("Unknown variable or constant: " \o src.name)

\* 'toString ** 0' has been handed to safeEval of the shared utilities with
\* no bindings, and it returned 1.
C3_Witness ==
    /\ Join(expr) = "toString ** 0"
    /\ variables = NoBindings
    /\ out["utils"].called
    /\ out["utils"].ret = Value(Num(1))

\* C4: in each copy, a bare identifier that is a key of the bindings and a
\* registered constant evaluates to the bound value.
C4_VariablesBeforeConstants ==
    \A v \in Variants :
        (/\ out[v].called
         /\ src.kind = "bare"
         /\ src.name \in DOMAIN variables
         /\ src.name \in ConstantNames)
            => out[v].ret = Value(variables[src.name])

\* 'E' has been handed to safeEval of the curve visualizer with the
\* bindings {E: 5}, and it returned Math.E.
C4_Witness ==
    /\ Join(expr) = "E"
    /\ variables = [n \in {"E"} |-> Num(5)]
    /\ out["visualizer"].called
    /\ out["visualizer"].ret = Value(Const("E"))

\* ------------------------------------------------- strings of characters

\* Longest string of the character family.
MaxChars == 3
\* Longest text written on each side of a caret.
MaxSide == 2

\* The characters of the family: the caret, two characters no rule takes,
\* and characters of numbers, identifiers, operators and whitespace.
CharAlphabet == {"^", "#", "$", "2", "3", ".", "e", "+", " ", "a"}
SideAlphabet == {"2", "3", " "}
Strings(alphabet, n) == UNION {[1..k -> alphabet] : k \in 0..n}
CharInputs(maxChars, maxSide) ==
    {[expr |-> e, variables |-> NoBindings, src |-> [kind |-> "chars"]]
     : e \in Strings(CharAlphabet, maxChars)
             \cup {s \o <<"^">> \o t : s, t \in Strings(SideAlphabet, maxSide)}}

InitChars == InitWith(CharInputs(MaxChars, MaxSide))
SpecChars == InitChars /\ [][Next]_vars

\* the tokenizer of copy v
tokenizeOf(v, e) ==
    CASE v = "utils" -> tokenizeUtils(e)
      [] v = "offline" -> tokenizeOffline(e)
      [] v = "visualizer" -> tokenizeVisualizer(e)
\* the message of copy v that advises '**' or pow
CaretMessage(v) ==
    IF v = "offline" THEN "Use Math.pow(a, b) or a ** b for exponents, not ^"
    ELSE "Use ** or pow(a, b) for exponents, not ^"
\* the entry point of copy v failed with msg (evaluateFormula prefixes it)
FailedWith(v, msg) ==
    out[v].ret = Throw(IF v = "offline" THEN "Formula error: " \o msg ELSE msg)
Carets == {i \in 1..Len(expr) : expr[i] = "^"}

\* C9: when the tokenizer of a copy reaches a '^' (the text before the first
\* '^' tokenizes), tokenize and the entry point fail with the copy's message
\* that advises '**' or pow; and no copy ever fails with the generic
\* 'Unexpected character: ^'.
C9_CaretHasDedicatedMessage ==
    \A v \in Variants :
        out[v].called =>
            /\ (Carets # {} /\ tokenizeOf(v, SubSeq(expr, 1, First(Carets) - 1)).ok)
                   => /\ out[v].tokens = Throw(CaretMessage(v))
                      /\ FailedWith(v, CaretMessage(v))
            /\ out[v].tokens # Throw("Unexpected character: ^")
            /\ out[v].ret # Throw("Unexpected character: ^")
            /\ out[v].ret # Throw("Formula error: Unexpected character: ^")

\* '2 ^ 3' has been handed to the three entry points and each failed with
\* its message that advises '**' or pow.
C9_Witness ==
    /\ Join(expr) = "2 ^ 3"
    /\ \A v \in Variants : out[v].called /\ FailedWith(v, CaretMessage(v))

\* the characters some rule of the tokenizers takes
RecognizedChars ==
    Whitespace \cup Digits \cup Letters
    \cup {".", "_", "+", "-", "*", "/", "%", "(", ")", ","}
OnlyUnrecognized == \A i \in 1..Len(expr) : expr[i] \notin RecognizedChars
\* what the tokenizer of copy v throws at the character char
RejectionOf(v, char) ==
    Throw(IF char = "^" THEN CaretMessage(v) ELSE "Unexpected character: " \o char)

\* C10 as stated: for every string of characters outside the recognized
\* alphabet, tokenize fails in each copy and returns no token list.
C10_UnrecognizedAlwaysFails ==
    \A v \in Variants :
        (out[v].called /\ OnlyUnrecognized) => ~out[v].tokens.ok

\* C10, amended: for every non-empty string of characters outside the
\* recognized alphabet, tokenize fails in each copy at the first character
\* (it skips none) and returns no token list, and the entry point fails.
C10_NonEmptyUnrecognizedFails ==
    \A v \in Variants :
        (out[v].called /\ OnlyUnrecognized /\ expr # <<>>)
            => /\ out[v].tokens = RejectionOf(v, expr[1])
               /\ ~out[v].ret.ok

\* '#$' has been handed to the three copies and each tokenizer failed at '#'.
C10_Witness ==
    /\ Join(expr) = "#$"
    /\ \A v \in Variants :
           out[v].called /\ out[v].tokens = Throw("Unexpected character: #")

\* ---------------------------------------------------- ill-formed formulas

\* Longest run of whitespace handed in as a formula.
MaxBlank == 2
\* Most signs and opening parentheses written where a primary is awaited.
MaxOpen == 2

\* the bindings the tools pass: base and level
GameBindings == [n \in {"base", "level"} |-> IF n = "base" THEN Num(10) ELSE Num(5)]

\* Complete expressions; ident: the text ends with an identifier.
CompleteTexts ==
    {[chars |-> <<"1">>, ident |-> FALSE],
     [chars |-> <<"1", " ", "+", " ", "2">>, ident |-> FALSE],
     [chars |-> <<"(", "1", ")">>, ident |-> FALSE],
     [chars |-> <<"b", "a", "s", "e">>, ident |-> TRUE],
     [chars |-> <<"s", "q", "r", "t", "(", "4", ")">>, ident |-> FALSE],
     [chars |-> <<"2", " ", "*", "*", " ", "3">>, ident |-> FALSE],
     [chars |-> <<"-", "1">>, ident |-> FALSE]}
\* What is written after a complete expression, with the text of its first token.
Leftovers ==
    {[chars |-> <<"2">>, token |-> "2"],
     [chars |-> <<")">>, token |-> ")"],
     [chars |-> <<"l", "e", "v", "e", "l">>, token |-> "level"],
     [chars |-> <<"(", "3", ")">>, token |-> "("],
     [chars |-> <<",">>, token |-> ","],
     [chars |-> <<"1", ".", "5">>, token |-> "1.5"]}
Space == <<" ">>

\* 'p l': a complete expression p, then a token that cannot continue it
LeftoverInputs ==
    {[expr |-> pl[1].chars \o Space \o pl[2].chars, variables |-> GameBindings,
      src |-> [kind |-> "leftover", token |-> pl[2].token]]
     : pl \in {x \in CompleteTexts \X Leftovers : ~(x[1].ident /\ x[2].token = "(")}}

\* Texts after which a primary is awaited: nothing, or a complete expression
\* and a binary operator, or an argument and a comma; then signs and
\* opening parentheses.
Awaiting ==
    {<<>>, <<"m", "a", "x", "(", "1", ",">>}
    \cup {p.chars \o Space \o op : p \in CompleteTexts,
              op \in {<<"+">>, <<"-">>, <<"*">>, <<"/">>, <<"%">>, <<"*", "*">>}}
RECURSIVE Spaced(_)
Spaced(items) ==
    IF Len(items) = 0 THEN <<>> ELSE Space \o <<Head(items)>> \o Spaced(Tail(items))
Openings(maxOpen) == UNION {[1..k -> {"-", "+", "("}] : k \in 0..maxOpen}
Blanks(maxBlank) == UNION {[1..k -> {" ", "\t"}] : k \in 0..maxBlank}
\* the formulas that end where a primary is awaited, and the blank formulas
EndInputs(maxOpen, maxBlank) ==
    {[expr |-> e, variables |-> GameBindings, src |-> [kind |-> "end"]]
     : e \in {a \o Spaced(o) : a \in Awaiting, o \in Openings(maxOpen)}
             \cup Blanks(maxBlank)}

\* What may follow the inner expression of an unclosed parenthesis: nothing,
\* or a token that is not ')' and cannot continue the expression.
Unclosers == {l \in Leftovers : l.token # ")"}
\* '(p' and '(p l', alone and as the right operand of '1 + '
ParenInputs ==
    {[expr |-> w \o <<"(">> \o pl[1].chars \o pl[2], variables |-> GameBindings,
      src |-> [kind |-> "paren"]]
     : w \in {<<>>, <<"1", " ", "+", " ">>},
       pl \in {<<p, <<>>>> : p \in CompleteTexts}
              \cup {<<x[1], Space \o x[2].chars>>
                    : x \in {y \in CompleteTexts \X Unclosers
                             : ~(y[1].ident /\ y[2].token = "(")}}}
\* 'f(', 'f(4', 'f(4, 9', 'f(4 2': an argument list that is not closed
UnclosedCallInputs ==
    {[expr |-> w \o f \o <<"(">> \o a \o t, variables |-> GameBindings,
      src |-> [kind |-> "unclosed call"]]
     : w \in {<<>>, <<"1", " ", "+", " ">>},
       f \in {<<"s", "q", "r", "t">>, <<"m", "a", "x">>},
       a \in {<<>>, <<"4">>, <<"4", ",", " ", "9">>},
       t \in {<<>>, <<" ", "2">>, <<" ", "l", "e", "v", "e", "l">>}}

SyntaxInputs(maxOpen, maxBlank) ==
    LeftoverInputs \cup EndInputs(maxOpen, maxBlank) \cup ParenInputs
    \cup UnclosedCallInputs

InitSyntax == InitWith(SyntaxInputs(MaxOpen, MaxBlank))
SpecSyntax == InitSyntax /\ [][Next]_vars

\* C11: when a token remains after the top-level expression has been
\* reduced, each copy's evaluate fails with 'Unexpected token: <token>'
\* and returns no value of the parsed prefix.
C11_LeftoverTokenFails ==
    \A v \in Variants :
        (out[v].called /\ src.kind = "leftover")
            => out[v].parsed = Throw("Unexpected token: " \o src.token)

\* '1 2' has been handed to the three copies and
\* each failed with 'Unexpected token: 2'.
C11_Witness ==
    /\ Join(expr) = "1 2"
    /\ \A v \in Variants :
           out[v].called /\ out[v].parsed = Throw("Unexpected token: 2")

\* C12: for a formula that is empty or blank, and for one that ends where a
\* primary is awaited, each copy's evaluate fails with
\* 'Unexpected end of expression'.
C12_EndOfExpression ==
    \A v \in Variants :
        (out[v].called /\ src.kind = "end")
            => out[v].parsed = Throw("Unexpected end of expression")

\* the empty formula has been handed to the three copies and each failed
\* with 'Unexpected end of expression'.
C12_Witness ==
    /\ expr = <<>>
    /\ src.kind = "end"
    /\ \A v \in Variants :
           out[v].called /\ out[v].parsed = Throw("Unexpected end of expression")

\* the message of copy v for an argument list that is not closed
UnclosedCallMessage(v) ==
    IF v = "visualizer" THEN "Missing closing parenthesis in function call"
    ELSE "Missing closing parenthesis for function call"

\* C13: when the token after the inner expression of a parenthesis is absent
\* or is not ')', each copy's evaluate fails with 'Missing closing
\* parenthesis', and with the function-call message when the parenthesis
\* opens an argument list; no value is returned.
C13_MissingClosingParenthesis ==
    \A v \in Variants :
        out[v].called =>
            /\ src.kind = "paren"
                   => out[v].parsed = Throw("Missing closing parenthesis")
            /\ src.kind = "unclosed call"
                   => out[v].parsed = Throw(UnclosedCallMessage(v))

\* '(1 + 2' has been handed to the three copies and each failed with
\* 'Missing closing parenthesis'.
C13_Witness ==
    /\ Join(expr) = "(1 + 2"
    /\ \A v \in Variants :
           out[v].called /\ out[v].parsed = Throw("Missing closing parenthesis")

\* ------------------------------------------------- argument counts

\* Longest argument list written in a call.
MaxArity == 4

\* The functions called, with the number of arguments each one takes:
\* an exact count, or two and more for min, max and hypot.
ArityNames == {"clamp", "lerp", "sqrt", "abs", "pow", "min", "max", "hypot"}
Variadic == {"min", "max", "hypot"}
Arity(name) ==
    CASE name \in {"clamp", "lerp"} -> 3
      [] name \in {"sqrt", "abs"} -> 1
      [] name = "pow" -> 2
      [] name \in Variadic -> 2
WrongCount(name, n) == IF name \in Variadic THEN n < Arity(name) ELSE n # Arity(name)

ArityLits == {1, 4, 9}
NameChars(name) ==
    CASE name = "clamp" -> <<"c", "l", "a", "m", "p">>
      [] name = "lerp" -> <<"l", "e", "r", "p">>
      [] name = "sqrt" -> <<"s", "q", "r", "t">>
      [] name = "abs" -> <<"a", "b", "s">>
      [] name = "pow" -> <<"p", "o", "w">>
      [] name = "min" -> <<"m", "i", "n">>
      [] name = "max" -> <<"m", "a", "x">>
      [] name = "hypot" -> <<"h", "y", "p", "o", "t">>

\* the formula 'name(a, b, ...)' with 0..maxArity literal arguments
ArityInputs(maxArity) ==
    {[expr |-> NameChars(n) \o <<"(">> \o ArgChars(args) \o <<")">>,
      variables |-> NoBindings,
      src |-> [kind |-> "arity", name |-> n, args |-> args]]
     : n \in ArityNames,
       args \in UNION {[1..k -> ArityLits] : k \in 0..maxArity}}

InitArity == InitWith(ArityInputs(MaxArity))
SpecArity == InitArity /\ [][Next]_vars

SignatureMessage(name) ==
    IF name = "clamp" THEN "clamp requires 3 arguments: clamp(value, min, max)"
    ELSE "lerp requires 3 arguments: lerp(a, b, t)"

\* C14: in every copy, clamp and lerp called with a number of arguments
\* other than 3 fail with the message that names the signature:
\* 'clamp requires 3 arguments: clamp(value, min, max)' or
\* 'lerp requires 3 arguments: lerp(a, b, t)'.
C14_ClampLerpArity ==
    \A v \in Variants :
        (/\ out[v].called
         /\ src.kind = "arity"
         /\ src.name \in {"clamp", "lerp"}
         /\ Len(src.args) # 3)
            => out[v].parsed = Throw(SignatureMessage(src.name))

\* 'clamp(9, 1, 4, 1)' has been handed to safeEval of the curve visualizer,
\* which returned 4: the fourth argument was dropped.
C14_Witness ==
    /\ Join(expr) = "clamp(9, 1, 4, 1)"
    /\ out["visualizer"].called
    /\ out["visualizer"].ret = Value(Num(4))

\* C15: a call with a number of arguments other than the function's count
\* (fewer than two for min, max and hypot) fails in every copy: the caller
\* gets an error, not a number.
C15_EveryFunctionArityChecked ==
    \A v \in Variants :
        (/\ out[v].called
         /\ src.kind = "arity"
         /\ WrongCount(src.name, Len(src.args)))
            => ~out[v].ret.ok

\* 'sqrt(4, 9)' has been handed to the three copies, and each returned 2.
C15_Witness ==
    /\ Join(expr) = "sqrt(4, 9)"
    /\ \A v \in Variants : out[v].called /\ out[v].ret = Value(Num(2))

\* ------------------------------------------------------ number tokens

\* The characters a copy's number rule takes when the formula starts with
\* a digit or '.': the run handed to parseFloat.
CapturedRun(v, e) ==
    CASE v = "utils" -> SubSeq(e, 1, UtilsNumberRun(e, 1, 1, FALSE, FALSE) - 1)
      [] v = "offline" -> SubSeq(e, 1, OfflineNumberRun(e, 1, 1) - 1)
      [] v = "visualizer" -> SubSeq(e, 1, ScanWhile(e, 1, NumberStart) - 1)

\* cs is one number from its first to its last character: digits with at
\* most one '.', at least one digit, and an exponent that has digits.
IsNumberText(cs) ==
    LET intEnd  == ScanWhile(cs, 1, Digits)
        hasDot  == intEnd <= Len(cs) /\ cs[intEnd] = "."
        fracEnd == IF hasDot THEN ScanWhile(cs, intEnd + 1, Digits) ELSE intEnd
        nDigits == (intEnd - 1) + (IF hasDot THEN fracEnd - intEnd - 1 ELSE 0)
        hasE    == fracEnd <= Len(cs) /\ cs[fracEnd] \in {"e", "E"}
        signAt  == fracEnd + 1
        hasSign == hasE /\ signAt <= Len(cs) /\ cs[signAt] \in {"+", "-"}
        expFrom == IF hasSign THEN signAt + 1 ELSE signAt
        expEnd  == IF hasE THEN ScanWhile(cs, expFrom, Digits) ELSE fracEnd
    IN  /\ nDigits > 0
        /\ hasE => expEnd > expFrom
        /\ expEnd = Len(cs) + 1

\* C20: in each copy, no number token holds NaN, and when the formula starts
\* with a digit or '.' and tokenize returns, the run it captured there is
\* one number from end to end and the first token holds its value.
C20_NumberTokenIsWholeRun ==
    \A v \in Variants :
        (out[v].called /\ out[v].tokens.ok) =>
            /\ \A i \in DOMAIN out[v].tokens.tokens :
                   out[v].tokens.tokens[i].type = "number"
                       => out[v].tokens.tokens[i].value.k # "nan"
            /\ (expr # <<>> /\ expr[1] \in NumberStart) =>
                   /\ IsNumberText(CapturedRun(v, expr))
                   /\ out[v].tokens.tokens[1]
                          = Tok("number", ParseFloat(CapturedRun(v, expr)))

\* '.' has been handed to the curve visualizer and to the offline simulator:
\* each tokenizer returned one number token that holds NaN.
C20_Witness ==
    /\ expr = <<".">>
    /\ \A v \in {"visualizer", "offline"} :
           out[v].called /\ out[v].tokens = Tokens(<<Tok("number", NaN)>>)

\* ---------------------------------------------------- repeated calls

\* Most evaluate calls made one after the other.
MaxCalls == 3

\* evaluate that takes the functions it has called out of allowedFunctions
AfterEvaluateSpendingFunctions(self, e, bindings) ==
    [self |-> [self EXCEPT !.allowedFunctions = {}], variables |-> bindings]
\* evaluate that writes 0 over every binding it was handed
AfterEvaluateClearingBindings(self, e, bindings) ==
    [self |-> self, variables |-> [n \in DOMAIN bindings |-> Num(0)]]

\* The objects evaluate can reach, as the call leaves them.  evaluate and
\* tokenize read them (self.allowedFunctions.has(name), name in
\* self.allowedConstants, self.allowedConstants[name], name in variables,
\* variables[name]) and assign only to their own locals (tokens, pos, i, num).
AfterEvaluate(self, e, bindings) == [self |-> self, variables |-> bindings]

\* SafeMathParser.evaluate(expr, variables) of the shared utilities, called
\* on the object as it is now, with the caller's formula and bindings
CallEvaluate ==
    /\ Len(calls) < MaxCalls
    /\ LET after == AfterEvaluate(parser, expr, variables)
       IN  /\ calls' = Append(calls, [expr |-> expr, variables |-> variables,
                                      self |-> parser,
                                      ret |-> evaluateOn(parser, expr, variables),
                                      after |-> after])
           /\ parser' = after.self
           /\ variables' = after.variables
    /\ UNCHANGED <<expr, src, out, timerVars, pageVars>>

\* The formulas and bindings a caller hands to evaluate: with variables,
\* with a function and a constant, an unfinished one, an unknown function.
CallFormulas ==
    {<<"b", "a", "s", "e", " ", "*", " ", "l", "e", "v", "e", "l">>,
     <<"s", "q", "r", "t", "(", "4", ")", " ", "+", " ", "P", "I">>,
     <<"l", "e", "v", "e", "l">>,
     <<"1", " ", "+">>,
     <<"f", "o", "o", "(", "2", ")">>}
CallPool ==
    {[expr |-> e, variables |-> b] : e \in CallFormulas, b \in {GameBindings, NoBindings}}

\* the caller chooses the formula and the bindings of its next call
PrepareCall ==
    /\ Len(calls) < MaxCalls
    /\ \E i \in CallPool : expr' = i.expr /\ variables' = i.variables
    /\ UNCHANGED <<src, out, callVars, timerVars, pageVars>>

InitCalls ==
    /\ \E i \in CallPool : expr = i.expr /\ variables = i.variables
    /\ src = [kind |-> "calls"]
    /\ out = [v \in Variants |-> NotCalled]
    /\ NoCalls
    /\ NoTimers
    /\ NoPage
NextCalls == PrepareCall \/ CallEvaluate
SpecCalls == InitCalls /\ [][NextCalls]_vars

MaxTime == 4
MaxDelay == 2
MaxAsked == 3
\* the arguments a call is made with
CallArgs == {"a", "b"}

\* The timers of the event loop: setTimeout(callback, ms) adds one, which
\* may run once `ms` have passed and not before; clearTimeout(id) takes it
\* away; clearTimeout of undefined or of a timer that has run does nothing.
setTimeout(table, id, callback, args, due) ==
    table \cup {[id |-> id, callback |-> callback, args |-> args, due |-> due]}
clearTimeout(table, id) == {t \in table : t.id # id}

\* executedFunction of debounce without its clearTimeout(timeout)
DebouncedTimersStacking(table, old, id, args, due) ==
    setTimeout(table, id, "later", args, due)

\* executedFunction of debounce:
\* clearTimeout(timeout); timeout = setTimeout(later, wait)
DebouncedTimers(table, old, id, args, due) ==
    setTimeout(clearTimeout(table, old), id, "later", args, due)

\* a call of the function debounce returned, with arguments a
CallDebounced ==
    /\ Len(asked) < MaxAsked
    /\ now + delay <= MaxTime
    /\ \E a \in CallArgs :
           /\ timers' = DebouncedTimers(timers, timeout, Len(asked) + 1, a, now + delay)
           /\ asked' = Append(asked, [at |-> now, args |-> a])
    /\ timeout' = Len(asked) + 1
    /\ UNCHANGED <<expr, variables, src, out, callVars, pageVars, now, delay, inThrottle, ran>>

\* the event loop runs a timer of debounce:
\* later = () => { clearTimeout(timeout); func(...args); }
RunLater ==
    /\ \E t \in timers :
           /\ t.callback = "later"
           /\ now >= t.due
           /\ timers' = clearTimeout(timers \ {t}, timeout)
           /\ ran' = Append(ran, [at |-> now, args |-> t.args, after |-> Len(asked)])
    /\ UNCHANGED <<expr, variables, src, out, callVars, pageVars, now, delay, timeout,
                   inThrottle, asked>>

\* one ms passes
Tick ==
    /\ now < MaxTime
    /\ now' = now + 1
    /\ UNCHANGED <<expr, variables, src, out, callVars, pageVars, delay, timeout, inThrottle,
                   timers, ran, asked>>

\* debounce(func, wait) or throttle(func, limit) has just returned
InitTimers(kind) ==
    /\ expr = <<>>
    /\ variables = NoBindings
    /\ src = [kind |-> kind]
    /\ out = [v \in Variants |-> NotCalled]
    /\ NoCalls
    /\ NoPage
    /\ now = 0 /\ delay \in 1..MaxDelay /\ timeout = 0 /\ inThrottle = FALSE
    /\ timers = {} /\ ran = <<>> /\ asked = <<>>

InitDebounce == InitTimers("debounce")
NextDebounce == CallDebounced \/ RunLater \/ Tick
SpecDebounce == InitDebounce /\ [][NextDebounce]_vars
\* time goes on, and a timer that is due is run
FairSpecDebounce == SpecDebounce /\ WF_vars(Tick) /\ WF_vars(RunLater)

\* at most one timer is set; each execution of func has the arguments of
\* the most recent call and comes wait ms or more after it; no call is
\* followed by two executions
DebounceSafe ==
    /\ Cardinality(timers) <= 1
    /\ \A i \in DOMAIN ran :
           /\ ran[i].after >= 1
           /\ ran[i].args = asked[ran[i].after].args
           /\ ran[i].at >= asked[ran[i].after].at + delay
    /\ \A i, j \in DOMAIN ran : i # j => ran[i].after # ran[j].after
\* after its k-th call the function is called again or func is executed
DebounceSettles ==
    \A k \in 1..MaxAsked :
        (Len(asked) = k) ~> (Len(asked) > k \/ \E i \in DOMAIN ran : ran[i].after = k)

\* C18: func is executed only when wait ms have passed since the most recent
\* call of the debounced function, with that call's arguments; a burst of
\* calls less than wait apart is followed by one execution, after its last
\* call; and at most one timer is pending at any time.
C18_DebounceRunsOnceAfterQuiet == []DebounceSafe /\ DebounceSettles

\* two calls less than wait apart, with different arguments, have been
\* followed by one execution of func, with the arguments of the second
C18_Witness ==
    /\ Len(asked) = 2
    /\ asked[2].at - asked[1].at < delay
    /\ asked[1].args = "a" /\ asked[2].args = "b"
    /\ Len(ran) = 1
    /\ ran[1].args = "b" /\ ran[1].at >= asked[2].at + delay
    /\ timers = {}

\* a call of the function throttle returned, with arguments a; func returns
\* or throws:
\* if (!inThrottle) { func(...args); inThrottle = true;
\*                    setTimeout(() => inThrottle = false, limit); }
CallThrottled ==
    /\ Len(asked) < MaxAsked
    /\ \E a \in CallArgs, outcome \in {"returns", "throws"} :
           /\ asked' = Append(asked, [at |-> now, args |-> a])
           /\ IF inThrottle THEN UNCHANGED <<ran, inThrottle, timers>>
              ELSE /\ ran' = Append(ran, [at |-> now, args |-> a,
                                          after |-> Len(asked) + 1,
                                          outcome |-> outcome])
                   /\ IF outcome = "throws" THEN UNCHANGED <<inThrottle, timers>>
                      ELSE /\ inThrottle' = TRUE
                           /\ timers' = setTimeout(timers, Len(asked) + 1, "reset",
                                                   <<>>, now + delay)
    /\ UNCHANGED <<expr, variables, src, out, callVars, pageVars, now, delay, timeout>>

\* the event loop runs a timer of throttle: () => inThrottle = false
RunReset ==
    /\ \E t \in timers :
           /\ t.callback = "reset"
           /\ now >= t.due
           /\ timers' = timers \ {t}
    /\ inThrottle' = FALSE
    /\ UNCHANGED <<expr, variables, src, out, callVars, pageVars, now, delay, timeout, ran, asked>>

InitThrottle == InitTimers("throttle")
NextThrottle == CallThrottled \/ RunReset \/ Tick
SpecThrottle == InitThrottle /\ [][NextThrottle]_vars

\* C19: the first call of the throttled function executes func at once, and
\* any two executions of func are limit ms or more apart.
C19_ThrottleSpacesExecutions ==
    /\ Len(asked) >= 1 =>
           Len(ran) >= 1 /\ ran[1].after = 1 /\ ran[1].at = asked[1].at
    /\ \A i, j \in DOMAIN ran : i < j => ran[j].at - ran[i].at >= delay

\* func threw in the first call, and the second call, made in the same ms,
\* executed func again
C19_Witness ==
    /\ Len(ran) = 2
    /\ ran[1].outcome = "throws"
    /\ ran[2].at = ran[1].at
    /\ ran[2].after = 2

\* ------------------------------------------------- malformed numbers

\* e is digits followed by an exponent without digits ('e', 'e+', 'e-') or
\* by a bare '.', and nothing more: '2e', '23e+', '2.'
EndsMalformed(e) ==
    LET k == ScanWhile(e, 1, Digits)
    IN  /\ k > 1
        /\ k <= Len(e)
        /\ SubSeq(e, k, Len(e)) \in {<<"e">>, <<"E">>, <<"e", "+">>, <<"e", "-">>, <<".">>}

\* C21: in the two tokenizers that take an exponent (shared utilities,
\* offline simulator), a number with an exponent that has no digits or with
\* a bare '.' at its end fails with 'Invalid number: <raw>'; no number token
\* is made of it.
C21_MalformedNumberFails ==
    \A v \in {"utils", "offline"} :
        (out[v].called /\ EndsMalformed(expr))
            => out[v].tokens = Throw("Invalid number: " \o Join(expr))

\* '2e' has been handed to the offline simulator, whose tokenizer returned
\* the number token 2.
C21_Witness ==
    /\ expr = <<"2", "e">>
    /\ out["offline"].called
    /\ out["offline"].tokens = Tokens(<<Tok("number", Num(2))>>)

\* ---------------------------------------------------- operator tokens

\* Longest formula of the family.
MaxOpChars == 4

\* Formulas over the characters of operators: '*' and what may stand around
\* it, the '.' of the single-character operator list, a digit, a blank.
OpAlphabet == {"*", ".", "2", "+", "(", " "}
OperatorInputs(maxOpChars) ==
    {[expr |-> e, variables |-> NoBindings, src |-> [kind |-> "operators"]]
     : e \in Strings(OpAlphabet, maxOpChars)}
InitOperators == InitWith(OperatorInputs(MaxOpChars))
SpecOperators == InitOperators /\ [][Next]_vars

\* the values an operator token may have
OperatorSymbols == {"+", "-", "*", "/", "%", "(", ")", ",", "**"}

\* the '*' and '**' of a formula read from the left, two adjacent '*' as
\* one '**'
RECURSIVE StarsOf(_, _)
StarsOf(e, i) ==
    IF i > Len(e) THEN <<>>
    ELSE IF e[i] = "*" /\ i + 1 <= Len(e) /\ e[i + 1] = "*"
         THEN <<"**">> \o StarsOf(e, i + 2)
    ELSE IF e[i] = "*" THEN <<"*">> \o StarsOf(e, i + 1)
    ELSE StarsOf(e, i + 1)
\* the values of the tokens '*' and '**' of a token list, in order
RECURSIVE StarTokens(_)
StarTokens(tokens) ==
    IF tokens = <<>> THEN <<>>
    ELSE IF Head(tokens).type = "operator" /\ Head(tokens).value \in {"*", "**"}
         THEN <<Head(tokens).value>> \o StarTokens(Tail(tokens))
    ELSE StarTokens(Tail(tokens))

\* C22: every operator token a tokenizer returns has a value among
\* + - * / % ( ) , ** : '.' is never an operator token, and two adjacent
\* '*' make one '**' token, not two '*' tokens.
C22_OperatorTokensInFixedSet ==
    \A v \in Variants :
        (out[v].called /\ out[v].tokens.ok) =>
            /\ \A i \in DOMAIN out[v].tokens.tokens :
                   out[v].tokens.tokens[i].type = "operator"
                       => out[v].tokens.tokens[i].value \in OperatorSymbols
            /\ StarTokens(out[v].tokens.tokens) = StarsOf(expr, 1)

\* '2***' has been tokenized by the three copies: 2, '**', '*'
C22_Witness ==
    /\ expr = <<"2", "*", "*", "*">>
    /\ \A v \in Variants :
           /\ out[v].called
           /\ out[v].tokens = Tokens(<<Tok("number", Num(2)), Tok("operator", "**"),
                                       Tok("operator", "*")>>)

\* ------------------------------------- calls of unregistered names

\* Names outside every registry, and what is written after their '(':
\* arguments that evaluate, an unknown variable, an unfinished expression,
\* each with and without the closing ')'.
UnknownNames == {<<"f", "o", "o">>, <<"e", "v", "a", "l">>, <<"M", "a", "x">>}
ArgumentTexts ==
    {<<>>, <<"1">>, <<"b", "a", "r">>, <<"1", ",", " ", "b", "a", "r">>,
     <<"1", " ", "+">>, <<"(", "1">>, <<"b", "a", "s", "e">>}
UnknownCallInputs ==
    {[expr |-> n \o <<"(">> \o a \o close, variables |-> b,
      src |-> [kind |-> "unknown call", name |-> Join(n), closed |-> close # <<>>]]
     : n \in UnknownNames, a \in ArgumentTexts, close \in {<<>>, <<")">>},
       b \in {NoBindings, GameBindings}}
InitUnknownCall == InitWith(UnknownCallInputs)
SpecUnknownCall == InitUnknownCall /\ [][Next]_vars

\* C23: in the shared utilities and in the offline simulator, name( with a
\* name outside the registry fails with 'Unknown or disallowed function:
\* <name>' whatever follows the '(': also when an argument names an unknown
\* variable or the ')' is missing.
C23_FunctionNameCheckedFirst ==
    \A v \in {"utils", "offline"} :
        (out[v].called /\ src.kind = "unknown call")
            => out[v].parsed = Throw("Unknown or disallowed function: " \o src.name)

\* 'foo(bar)' without bindings has been handed to the two copies, and each
\* failed on the argument: 'Unknown variable or constant: bar'
C23_Witness ==
    /\ Join(expr) = "foo(bar)"
    /\ variables = NoBindings
    /\ \A v \in {"utils", "offline"} :
           /\ out[v].called
           /\ out[v].parsed = Throw("Unknown variable or constant: bar")

\* -------------------------------------------- the three copies compared

\* the functions every copy has in its registry
CommonFunctions == UtilsAllowedFunctions \cap OfflineAllowedFunctions \cap VisualizerFunctions

\* evaluate of the shared utilities, evaluate of the offline simulator and
\* safeEval of the curve visualizer all failed or all returned one value
CopiesAgree ==
    \/ \A v \in Variants : ~out[v].parsed.ok
    \/ \A v \in Variants :
           out[v].parsed.ok /\ out[v].parsed.val = out["utils"].parsed.val

\* C24: on a call of a function that all three registries have, with plain
\* integer literals as arguments, the three copies return the same value or
\* all three fail.
C24_CopiesEquivalent ==
    (/\ \A v \in Variants : out[v].called
     /\ src.kind = "arity"
     /\ src.name \in CommonFunctions)
        => CopiesAgree

\* 'clamp(9, 1, 4, 1)' has been handed to the three copies: the two
\* SafeMathParser.evaluate failed on the argument count, safeEval of the
\* curve visualizer returned 4.
C24_Witness ==
    /\ Join(expr) = "clamp(9, 1, 4, 1)"
    /\ \A v \in {"utils", "offline"} :
           /\ out[v].called
           /\ out[v].parsed = Throw("clamp requires 3 arguments: clamp(value, min, max)")
    /\ out["visualizer"].called
    /\ out["visualizer"].parsed = Value(Num(4))

\* ------------------------------------- curve visualizer: curves and view

\* const MAX_CURVES
MAX_CURVES == 8
\* Largest id handed to a curve.
MaxCurveId == 9

\* the formula evaluators, the logged calls, the timers and the other page,
\* which the handlers of the curve visualizer leave alone
toolVars == <<expr, variables, src, out, callVars, timerVars, sim, packer>>
NoTools(kind) ==
    /\ expr = <<>>
    /\ variables = NoBindings
    /\ src = [kind |-> kind]
    /\ out = [v \in Variants |-> NotCalled]
    /\ NoCalls
    /\ NoTimers
    /\ NoSim
    /\ NoPacker

\* createCurve(name, formula): the curve with the next id
createCurve(next) == [id |-> next]

\* addCurve without its test of curves.length
addCurveUnlimited(cs, next, shown) ==
    [curves |-> Append(cs, createCurve(next)), nextCurveId |-> next + 1,
     toast |-> shown]

\* addCurve(name, formula): curves, nextCurveId and the toast after the
\* call, shown being the toast before it
addCurve(cs, next, shown) ==
    IF Len(cs) >= MAX_CURVES
    THEN [curves |-> cs, nextCurveId |-> next, toast |-> "Maximum 8 curves allowed"]
    ELSE [curves |-> Append(cs, createCurve(next)), nextCurveId |-> next + 1,
          toast |-> shown]

\* curves.findIndex(c => c.id === id), counted from 1; 0 when there is none
RECURSIVE findIndex(_, _, _)
findIndex(cs, id, i) ==
    IF i > Len(cs) THEN 0 ELSE IF cs[i].id = id THEN i ELSE findIndex(cs, id, i + 1)

\* duplicateCurve(id): curves, nextCurveId and the toast after the call
duplicateCurve(cs, next, id, shown) ==
    IF Len(cs) >= MAX_CURVES
    THEN [curves |-> cs, nextCurveId |-> next, toast |-> "Maximum 8 curves allowed"]
    ELSE IF findIndex(cs, id, 1) = 0
    THEN [curves |-> cs, nextCurveId |-> next, toast |-> shown]
    ELSE LET sourceIndex == findIndex(cs, id, 1)
         IN  [curves |-> SubSeq(cs, 1, sourceIndex) \o <<[id |-> next]>>
                          \o SubSeq(cs, sourceIndex + 1, Len(cs)),
              nextCurveId |-> next + 1,
              toast |-> "Curve duplicated"]

\* removeCurve(id): curves = curves.filter(c => c.id !== id)
removeCurve(cs, id) == SelectSeq(cs, LAMBDA c : c.id # id)

\* handlePresetSelect: a preset of PRESETS is added, the empty choice is not
HandlePresetSelect ==
    /\ nextCurveId <= MaxCurveId
    /\ \E preset \in {"", "linear", "exponential"} :
           IF preset # ""
           THEN LET after == addCurve(curves, nextCurveId, toast)
                IN  /\ curves' = after.curves
                    /\ nextCurveId' = after.nextCurveId
                    /\ toast' = after.toast
           ELSE UNCHANGED <<curves, nextCurveId, toast>>
    /\ UNCHANGED <<toolVars, logScale, viewMode, logScaleChecked>>

\* handleAddCurve: addCurve(`Curve ${nextCurveId}`, 'base * level')
HandleAddCurve ==
    /\ nextCurveId <= MaxCurveId
    /\ LET after == addCurve(curves, nextCurveId, toast)
       IN  /\ curves' = after.curves
           /\ nextCurveId' = after.nextCurveId
           /\ toast' = after.toast
    /\ UNCHANGED <<toolVars, logScale, viewMode, logScaleChecked>>

\* the click on the duplicate button of a curve of the list
ClickDuplicate ==
    /\ nextCurveId <= MaxCurveId
    /\ \E i \in DOMAIN curves :
           LET after == duplicateCurve(curves, nextCurveId, curves[i].id, toast)
           IN  /\ curves' = after.curves
               /\ nextCurveId' = after.nextCurveId
               /\ toast' = after.toast
    /\ UNCHANGED <<toolVars, logScale, viewMode, logScaleChecked>>

\* the click on the delete button of a curve of the list
ClickDelete ==
    /\ \E i \in DOMAIN curves : curves' = removeCurve(curves, curves[i].id)
    /\ UNCHANGED <<toolVars, nextCurveId, logScale, viewMode, logScaleChecked, toast>>

\* handleReset: curves = []; nextCurveId = 1
HandleReset ==
    /\ curves' = <<>>
    /\ nextCurveId' = 1
    /\ toast' = "Reset complete"
    /\ UNCHANGED <<toolVars, logScale, viewMode, logScaleChecked>>

\* handleLogScaleToggle: logScale, the checkbox and the toast after the
\* handler, for the checkbox state wantsLog it found
LogScaleToggle(wantsLog, mode, hasInvalidValues, log, shown) ==
    IF wantsLog /\ mode = "growth"
    THEN [logScale |-> log, checked |-> FALSE,
          toast |-> "Log scale not available in Growth mode"]
    ELSE IF wantsLog /\ hasInvalidValues
    THEN [logScale |-> log, checked |-> FALSE,
          toast |-> "Log scale requires all values > 0"]
    ELSE [logScale |-> wantsLog, checked |-> wantsLog, toast |-> shown]

\* the change event of the log scale checkbox, which the click has flipped;
\* some visible curve has a value <= 0 or none has
HandleLogScaleToggle ==
    /\ \E hasInvalidValues \in BOOLEAN :
           LET after == LogScaleToggle(~logScaleChecked, viewMode, hasInvalidValues,
                                       logScale, toast)
           IN  /\ logScale' = after.logScale
               /\ logScaleChecked' = after.checked
               /\ toast' = after.toast
    /\ UNCHANGED <<toolVars, curves, nextCurveId, viewMode>>

\* handleViewModeChange that leaves logScale as it is
ViewModeChangeKeepingLog(value, log, checked, shown) ==
    [viewMode |-> value, logScale |-> log, checked |-> checked, toast |-> shown]

\* handleViewModeChange: viewMode, logScale, the checkbox and the toast
\* after the handler, for the value of the select it found
ViewModeChange(value, log, checked, shown) ==
    IF value = "growth" /\ log
    THEN [viewMode |-> value, logScale |-> FALSE, checked |-> FALSE,
          toast |-> "Log scale disabled in Growth mode"]
    ELSE [viewMode |-> value, logScale |-> log, checked |-> checked, toast |-> shown]

\* the change event of the view mode select
HandleViewModeChange ==
    /\ \E value \in {"absolute", "growth"} :
           LET after == ViewModeChange(value, logScale, logScaleChecked, toast)
           IN  /\ viewMode' = after.viewMode
               /\ logScale' = after.logScale
               /\ logScaleChecked' = after.checked
               /\ toast' = after.toast
    /\ UNCHANGED <<toolVars, curves, nextCurveId>>

\* the page after init(): addCurve('Exponential', 'base * 1.1 ** level')
InitCurves ==
    /\ NoTools("curves")
    /\ curves = addCurve(<<>>, 1, "").curves
    /\ nextCurveId = addCurve(<<>>, 1, "").nextCurveId
    /\ logScale = FALSE /\ viewMode = "absolute" /\ logScaleChecked = FALSE
    /\ toast = ""
\* the handlers that change the curve list
NextCurves ==
    \/ HandlePresetSelect \/ HandleAddCurve \/ ClickDuplicate \/ ClickDelete
    \/ HandleReset
SpecCurves == InitCurves /\ [][NextCurves]_vars
\* the handlers of the view controls, on curve lists that grow, shrink and
\* are reset
NextView ==
    \/ HandleLogScaleToggle \/ HandleViewModeChange
    \/ HandleAddCurve \/ ClickDelete \/ HandleReset
SpecView == InitCurves /\ [][NextView]_vars

\* C28: log scale is never on while the view mode is 'growth'.
C28_NoLogScaleInGrowthMode == ~(logScale /\ viewMode = "growth")

\* log scale was on when the view was changed to growth: the handler has
\* switched log scale and its checkbox off and said so
C28_Witness ==
    /\ viewMode = "growth"
    /\ ~logScale /\ ~logScaleChecked
    /\ toast = "Log scale disabled in Growth mode"

\* the curve list holds at most MAX_CURVES curves, with distinct ids
CurvesWithinLimit ==
    /\ Len(curves) <= MAX_CURVES
    /\ \A i, j \in DOMAIN curves : i # j => curves[i].id # curves[j].id
\* an add or a duplicate at the limit changes neither curves nor nextCurveId
FullListStays ==
    (Len(curves) >= MAX_CURVES /\ (HandlePresetSelect \/ HandleAddCurve \/ ClickDuplicate))
        => UNCHANGED <<curves, nextCurveId>>

\* C29: after any sequence of adds, duplicates, removals, preset choices
\* and resets the list holds at most MAX_CURVES = 8 curves with pairwise
\* distinct ids, and an add or duplicate at the limit leaves the list and
\* nextCurveId as they are.
C29_CurveListBounded == []CurvesWithinLimit /\ [][FullListStays]_vars

\* an add or a duplicate was refused on the full list, which holds a
\* duplicate placed after its source
C29_Witness ==
    /\ Len(curves) = MAX_CURVES
    /\ toast = "Maximum 8 curves allowed"
    /\ \E i \in 1..(MAX_CURVES - 1) : curves[i].id < curves[i + 1].id - 1

\* ------------------------------------- offline simulator: double arithmetic

\* The simulator computes its ticks with JavaScript numbers, which are
\* IEEE 754 doubles: every division and multiplication is rounded to 53
\* significant bits, to nearest, ties to even.  A natural number of any
\* size is a sequence of limbs below Limb.base = 2^Limb.bits, least significant first,
\* without leading zero limbs; a double >= 0 is [m, e] for m * 2^e with m
\* of exactly MantissaBits bits, or DoubleZero.
Limb == [bits |-> 15, base |-> 32768]
\* 52 stored bits and the leading one
MantissaBits == 52 + 1

RECURSIVE Pow2(_)
Pow2(k) == IF k = 0 THEN 1 ELSE 2 * Pow2(k - 1)

RECURSIVE BigOf(_)
BigOf(n) == IF n = 0 THEN <<>> ELSE <<n % Limb.base>> \o BigOf(n \div Limb.base)

RECURSIVE BigToInt(_)
BigToInt(x) == IF x = <<>> THEN 0 ELSE x[1] + Limb.base * BigToInt(Tail(x))

RECURSIVE SmallBits(_)
SmallBits(n) == IF n = 0 THEN 0 ELSE 1 + SmallBits(n \div 2)

\* the number of bits of x
BigBits(x) == IF x = <<>> THEN 0 ELSE Limb.bits * (Len(x) - 1) + SmallBits(x[Len(x)])

\* bit j of x, bit 0 being the lowest
BigBit(x, j) ==
    IF j \div Limb.bits + 1 > Len(x) THEN 0
    ELSE (x[j \div Limb.bits + 1] \div Pow2(j % Limb.bits)) % 2

\* x * k + carry for k and carry below Limb.base
RECURSIVE BigMulSmall(_, _, _)
BigMulSmall(x, k, carry) ==
    IF x = <<>> THEN BigOf(carry)
    ELSE <<(x[1] * k + carry) % Limb.base>>
             \o BigMulSmall(Tail(x), k, (x[1] * k + carry) \div Limb.base)

RECURSIVE BigTrim(_)
BigTrim(x) ==
    IF x = <<>> THEN <<>>
    ELSE IF x[Len(x)] = 0 THEN BigTrim(SubSeq(x, 1, Len(x) - 1)) ELSE x

\* x * 2^k
BigShl(x, k) ==
    IF x = <<>> THEN <<>>
    ELSE [j \in 1..(k \div Limb.bits) |-> 0] \o BigMulSmall(x, Pow2(k % Limb.bits), 0)

\* x \div k for 0 < k <= Limb.base, from the most significant limb down
RECURSIVE BigDivSmallFrom(_, _, _, _)
BigDivSmallFrom(x, k, j, rem) ==
    IF j = 0 THEN <<>>
    ELSE BigDivSmallFrom(x, k, j - 1, (rem * Limb.base + x[j]) % k)
             \o <<(rem * Limb.base + x[j]) \div k>>
BigDivSmall(x, k) == BigTrim(BigDivSmallFrom(x, k, Len(x), 0))
BigHalf(x) == BigDivSmall(x, 2)

\* x \div 2^k
BigShr(x, k) ==
    IF k \div Limb.bits >= Len(x) THEN <<>>
    ELSE BigDivSmall(SubSeq(x, k \div Limb.bits + 1, Len(x)), Pow2(k % Limb.bits))

\* whether one of the lowest k bits of x is set
BigLowBits(x, k) ==
    \/ \E j \in 1..(k \div Limb.bits) : j <= Len(x) /\ x[j] # 0
    \/ /\ k \div Limb.bits + 1 <= Len(x)
       /\ x[k \div Limb.bits + 1] % Pow2(k % Limb.bits) # 0

\* -1, 0 or 1 as x is below, equal to or above y
RECURSIVE BigCmpFrom(_, _, _)
BigCmpFrom(x, y, j) ==
    IF j = 0 THEN 0
    ELSE IF x[j] < y[j] THEN -1
    ELSE IF x[j] > y[j] THEN 1
    ELSE BigCmpFrom(x, y, j - 1)
BigCmp(x, y) ==
    IF Len(x) < Len(y) THEN -1
    ELSE IF Len(x) > Len(y) THEN 1
    ELSE BigCmpFrom(x, y, Len(x))

\* x - y for x >= y
RECURSIVE BigSubFrom(_, _, _, _)
BigSubFrom(x, y, j, borrow) ==
    IF j > Len(x) THEN <<>>
    ELSE LET d == x[j] - (IF j <= Len(y) THEN y[j] ELSE 0) - borrow
         IN  IF d < 0 THEN <<d + Limb.base>> \o BigSubFrom(x, y, j + 1, 1)
             ELSE <<d>> \o BigSubFrom(x, y, j + 1, 0)
BigSub(x, y) == BigTrim(BigSubFrom(x, y, 1, 0))

BigInc(x) == BigMulSmall(x, 1, 1)

\* Long division takes the dividend by digits of 5 bits, three to a limb.
Digit == [bits |-> 5, base |-> 32]

\* one step of the long division by d > 0: r2 is the remainder so far with
\* the next digit of the dividend, and the quotient q so far takes the
\* largest digit c with c * d <= r2
BigDivDigit(q, r2, d, c) ==
    [q |-> BigMulSmall(q, Digit.base, c), r |-> BigSub(r2, BigMulSmall(d, c, 0))]
BigDivFit(q, r2, d) ==
    BigDivDigit(q, r2, d,
        Cardinality({c \in 1..(Digit.base - 1) : BigCmp(BigMulSmall(d, c, 0), r2) <= 0}))
BigDivStep(p, d, digit) == BigDivFit(p.q, BigMulSmall(p.r, Digit.base, digit), d)

\* the three digits of a limb, from the highest down, taken into the long
\* division by d that has come to p
BigDivLimb(p, d, limb) ==
    BigDivStep(BigDivStep(BigDivStep(p, d, limb \div (Digit.base * Digit.base)),
                          d, (limb \div Digit.base) % Digit.base),
               d, limb % Digit.base)

\* the quotient and the remainder of the limbs j and up of n by d > 0
RECURSIVE BigDivTo(_, _, _)
BigDivTo(n, d, j) ==
    IF j > Len(n) THEN [q |-> <<>>, r |-> <<>>]
    ELSE BigDivLimb(BigDivTo(n, d, j + 1), d, n[j])
BigDiv(n, d) == IF BigCmp(n, d) < 0 THEN [q |-> <<>>, r |-> n] ELSE BigDivTo(n, d, 1)

DoubleZero == [m |-> <<>>, e |-> 0]

\* x with its lowest k > 0 bits dropped; half is the highest dropped bit
\* and sticky tells whether a lower one, or the inexact tail below, was set
DropBits(x, k, inexact) ==
    [q |-> BigShr(x, k),
     half |-> BigBit(x, k - 1) = 1,
     sticky |-> inexact \/ BigLowBits(x, k - 1)]

\* the double nearest to x * 2^e, ties to even; inexact tells that the
\* number meant is a little above x * 2^e
RoundToDouble(x, e, inexact) ==
    IF x = <<>> THEN DoubleZero
    ELSE IF BigBits(x) <= MantissaBits
    THEN [m |-> BigShl(x, MantissaBits - BigBits(x)), e |-> e - (MantissaBits - BigBits(x))]
    ELSE LET k == BigBits(x) - MantissaBits
             d == DropBits(x, k, inexact)
             up == d.half /\ (d.sticky \/ BigBit(d.q, 0) = 1)
             m == IF up THEN BigInc(d.q) ELSE d.q
         IN  IF BigBits(m) > MantissaBits THEN [m |-> BigHalf(m), e |-> e + k + 1]
             ELSE [m |-> m, e |-> e + k]

\* the double of a natural number below 2^53
ToDouble(n) == RoundToDouble(BigOf(n), 0, FALSE)

\* a / b in doubles, for doubles a and b > 0
DoubleDiv(a, b) ==
    IF a = DoubleZero THEN DoubleZero
    ELSE LET d == BigDiv(BigShl(a.m, MantissaBits + 2), b.m)
         IN  RoundToDouble(d.q, a.e - b.e - (MantissaBits + 2), d.r # <<>>)

\* i * a in doubles, for a natural number i below Limb.base and a double a
DoubleTimes(i, a) ==
    IF i = 0 \/ a = DoubleZero THEN DoubleZero ELSE RoundToDouble(BigMulSmall(a.m, i, 0), a.e, FALSE)

\* a < b for doubles
DoubleLess(a, b) ==
    IF b = DoubleZero THEN FALSE
    ELSE IF a = DoubleZero THEN TRUE
    ELSE IF a.e # b.e THEN a.e < b.e
    ELSE BigCmp(a.m, b.m) < 0

\* Math.min and Math.max
DoubleMin(a, b) == IF DoubleLess(b, a) THEN b ELSE a
DoubleMax(a, b) == IF DoubleLess(a, b) THEN b ELSE a

\* Math.ceil of a double below 2^30, as a natural number
DoubleCeil(a) ==
    IF a = DoubleZero THEN 0
    ELSE IF a.e >= 0 THEN BigToInt(BigShl(a.m, a.e))
    ELSE IF -a.e >= MantissaBits THEN 1
    ELSE LET d == DropBits(a.m, -a.e, FALSE)
         IN  BigToInt(d.q) + (IF d.half \/ d.sticky THEN 1 ELSE 0)

\* ------------------------------------- offline simulator: runSimulation

\* const maxTicks
maxTicks == 10000

\* The configurations runSimulation is called with: durationSeconds,
\* tickInterval as the quotient of two natural numbers (the double that
\* parseFloat makes of '0.5' is 1 / 2 rounded) and offlineCapHours.
SimConfig(durationSeconds, num, den, offlineCapHours) ==
    [durationSeconds |-> durationSeconds, tickInterval |-> [num |-> num, den |-> den],
     offlineCapHours |-> offlineCapHours]
SimConfigs ==
    { SimConfig(60, 1, 1, 0),       \* 1 min, a tick every second
      SimConfig(90, 1, 2, 0),       \* 1.5 min, a tick every half second
      SimConfig(7, 3, 1, 0),        \* 7 s, a tick every 3 s
      SimConfig(10800, 1, 1, 0),    \* 3 h
      SimConfig(11280, 1, 1, 0),    \* 3 h 8 min
      SimConfig(11340, 1, 1, 0),    \* 3 h 9 min
      SimConfig(11280, 1, 1, 1) }   \* 3 h 8 min, capped at 1 h

\* capSeconds: offlineCapHours * 3600, or 0 for Infinity
capSecondsOf(config) == config.offlineCapHours * 3600
\* effectiveDuration = Math.min(durationSeconds, capSeconds)
effectiveDurationOf(config) ==
    IF config.offlineCapHours > 0 /\ capSecondsOf(config) < config.durationSeconds
    THEN capSecondsOf(config)
    ELSE config.durationSeconds

\* actualTickInterval = Math.max(tickInterval, effectiveDuration / maxTicks)
actualTickIntervalOf(config) ==
    DoubleMax(DoubleDiv(ToDouble(config.tickInterval.num), ToDouble(config.tickInterval.den)),
              DoubleDiv(ToDouble(effectiveDurationOf(config)), ToDouble(maxTicks)))

\* totalTicks = Math.ceil(effectiveDuration / actualTickInterval)
totalTicksOf(config) ==
    DoubleCeil(DoubleDiv(ToDouble(effectiveDurationOf(config)), actualTickIntervalOf(config)))

simOther == <<expr, variables, src, out, callVars, timerVars, uiVars, packer>>

\* runSimulation(config) up to its loop
StartSimulation ==
    /\ sim.phase # "running"
    /\ \E config \in SimConfigs :
           sim' = [phase |-> "running",
                   config |-> config,
                   effectiveDuration |-> ToDouble(effectiveDurationOf(config)),
                   actualTickInterval |-> actualTickIntervalOf(config),
                   totalTicks |-> totalTicksOf(config),
                   i |-> 0,
                   previousTime |-> DoubleZero,
                   ticks |-> [length |-> 0, first |-> DoubleZero, last |-> DoubleZero]]
    /\ UNCHANGED simOther

\* const timeSeconds = Math.min(i * actualTickInterval, effectiveDuration)
timeSecondsAt(s) == DoubleMin(DoubleTimes(s.i, s.actualTickInterval), s.effectiveDuration)

\* ticks.push({time: timeSeconds, ...}): the length of ticks and the time
\* of its first and of its last tick
Push(ticks, timeSeconds) ==
    [length |-> ticks.length + 1,
     first |-> IF ticks.length = 0 THEN timeSeconds ELSE ticks.first,
     last |-> timeSeconds]

\* one turn of the loop of runSimulation: evaluateFormula returns a rate or
\* throws, which ends the call
RecordTick ==
    /\ sim.phase = "running"
    /\ sim.i <= sim.totalTicks
    /\ \E evaluated \in {"returns", "throws"} :
           IF evaluated = "throws"
           THEN sim' = [phase |-> "threw"]
           ELSE sim' = [sim EXCEPT !.i = sim.i + 1,
                                   !.previousTime = timeSecondsAt(sim),
                                   !.ticks = Push(sim.ticks, timeSecondsAt(sim))]
    /\ UNCHANGED simOther

\* the loop is over: runSimulation returns its result
ReturnSimulation ==
    /\ sim.phase = "running"
    /\ sim.i > sim.totalTicks
    /\ sim' = [sim EXCEPT !.phase = "returned"]
    /\ UNCHANGED simOther

InitSimulation ==
    /\ expr = <<>>
    /\ variables = NoBindings
    /\ src = [kind |-> "simulation"]
    /\ out = [v \in Variants |-> NotCalled]
    /\ NoCalls
    /\ NoTimers
    /\ NoPage
NextSimulation == StartSimulation \/ RecordTick \/ ReturnSimulation
SpecSimulation == InitSimulation /\ [][NextSimulation]_vars

\* the ticks recorded so far start at 0, do not pass the effective
\* duration, and are at most maxTicks intervals; once the call has
\* returned the last one is at the effective duration
TicksWithinDuration ==
    sim.phase \in {"running", "returned"} =>
        /\ sim.ticks.length >= 1 => sim.ticks.first = DoubleZero
        /\ ~DoubleLess(sim.effectiveDuration, sim.ticks.last)
        /\ sim.ticks.length - 1 <= maxTicks
        /\ sim.phase = "returned" =>
               /\ sim.ticks.last = sim.effectiveDuration
               /\ sim.effectiveDuration = ToDouble(effectiveDurationOf(sim.config))
\* a tick is never earlier than the tick before it
TicksInOrder ==
    (RecordTick /\ sim'.phase = "running") => ~DoubleLess(sim'.ticks.last, sim.ticks.last)

\* C27: for durationSeconds > 0 and tickInterval > 0 the recorded tick
\* times start at 0, never decrease, never pass the effective duration
\* min(durationSeconds, cap), and the last one equals it, so that the
\* elapsed intervals add up to the effective duration; there are at most
\* maxTicks = 10000 tick intervals.
C27_TicksCoverDuration == []TicksWithinDuration /\ [][TicksInOrder]_vars

\* 3 h 8 min with a tick every second: the call returns 10002 ticks, one
\* interval more than maxTicks
C27_Witness ==
    /\ sim.phase = "returned"
    /\ sim.config = SimConfig(11280, 1, 1, 0)
    /\ sim.ticks.length - 1 = maxTicks + 1
    /\ sim.ticks.last = sim.effectiveDuration

\* 3 h 9 min with a tick every second: the last of the 10001 ticks is
\* short of the 11340 s
C27_ShortOfDuration ==
    /\ sim.phase = "returned"
    /\ sim.config = SimConfig(11340, 1, 1, 0)
    /\ sim.ticks.length - 1 = maxTicks
    /\ DoubleLess(sim.ticks.last, sim.effectiveDuration)

\* ------------------------------------- sprite-sheet packer: sheet import

\* Most calls of handleFiles, most sheets among the files of one call, and
\* the grid that calculateSliceGrid finds on a sheet.
MaxDrops == 2
MaxSheets == 2
GridCols == 2
GridRows == 2

\* null, for pendingImportImage; a sheet is the index-th potential sheet of
\* a call of handleFiles
NullImage == [call |-> 0, index |-> 0]
Sheet(c, index) == [call |-> c, index |-> index]

\* no performImport has been called
NotImporting ==
    [phase |-> "idle", mode |-> "", img |-> NullImage, skipped |-> {},
     loadPromises |-> <<>>, settled |-> <<>>, newSprites |-> <<>>, insertIdx |-> 0]

\* the page as its script leaves it
PackerLoaded ==
    [loaded |-> TRUE,
     handleFiles |-> [c \in 1..MaxDrops |-> [phase |-> "none", sheets |-> 0, at |-> 0]],
     importModal |-> [show |-> FALSE, resolve |-> 0],
     pendingImportImage |-> NullImage,
     confirmImportBtn |-> [disabled |-> FALSE],
     sprites |-> <<>>,
     importing |-> NotImporting,
     microtasks |-> <<>>]

packerOther == <<expr, variables, src, out, callVars, timerVars, uiVars, sim>>

\* showImportModal(imageData) for the index-th sheet of call c, which then
\* waits for the promise: importModal._resolve is the promise's resolve
showImportModal(s, c, index) ==
    [s EXCEPT !.pendingImportImage = Sheet(c, index),
              !.importModal = [show |-> TRUE, resolve |-> c],
              !.handleFiles[c] = [@ EXCEPT !.phase = "waiting", !.at = index]]

\* processPendingSheets(sheets) of call c, from its index-th sheet on
processPendingSheets(s, c, index) ==
    IF index > s.handleFiles[c].sheets
    THEN [s EXCEPT !.handleFiles[c].phase = "done"]
    ELSE showImportModal(s, c, index)

\* closeImportModal(imported): the resolved promise's continuation is queued
closeImportModal(s, imported) ==
    [s EXCEPT !.importModal = [show |-> FALSE, resolve |-> 0],
              !.microtasks = IF s.importModal.resolve # 0
                             THEN Append(@, s.importModal.resolve) ELSE @,
              !.pendingImportImage = NullImage]

\* the continuations queued run before the next event: each call goes on
\* in the loop of processPendingSheets
RECURSIVE RunMicrotasks(_)
RunMicrotasks(s) ==
    IF s.microtasks = <<>> THEN s
    ELSE RunMicrotasks(processPendingSheets([s EXCEPT !.microtasks = Tail(@)],
                                            Head(s.microtasks),
                                            s.handleFiles[Head(s.microtasks)].at + 1))

\* handleFiles(files) up to its first await: files with 1..MaxSheets sheets
HandleFiles ==
    /\ packer.loaded
    /\ \E c \in 1..MaxDrops :
           /\ packer.handleFiles[c].phase = "none"
           /\ c > 1 => packer.handleFiles[c - 1].phase # "none"
           /\ IF packer.importModal.show
              THEN packer' = [packer EXCEPT !.handleFiles[c].phase = "refused"]
              ELSE \E n \in 1..MaxSheets :
                       packer' = [packer EXCEPT !.handleFiles[c] =
                                      [phase |-> "loading", sheets |-> n, at |-> 0]]
    /\ UNCHANGED packerOther

\* the images of a call have loaded: handleFiles goes on to
\* processPendingSheets(potentialSheets)
FilesLoaded ==
    /\ packer.loaded
    /\ \E c \in 1..MaxDrops :
           /\ packer.handleFiles[c].phase = "loading"
           /\ packer' = RunMicrotasks(processPendingSheets(packer, c, 1))
    /\ UNCHANGED packerOther

\* the close button, Cancel, the backdrop or Escape
CloseModal ==
    /\ packer.loaded
    /\ packer.importModal.show
    /\ packer' = RunMicrotasks(closeImportModal(packer, FALSE))
    /\ UNCHANGED packerOther

\* sprites.splice(insertIdx, 0, ...newSprites)
insertIdxOf(s, insertPosition) == IF insertPosition = "end" THEN Len(s.sprites) ELSE 0
Splice(sprites, insertIdx, newSprites) ==
    SubSeq(sprites, 1, insertIdx) \o newSprites \o SubSeq(sprites, insertIdx + 1, Len(sprites))

\* the row-major number of the tile <<row, col>>
RowMajor(tile) == tile[1] * GridCols + tile[2]

\* the loop of performImport over the tiles from <<row, col>> on: a tile
\* that is skipped makes no promise, another one is named after
\* loadPromises.length
RECURSIVE SliceFrom(_, _, _, _)
SliceFrom(row, col, skipped, loadPromises) ==
    IF row >= GridRows THEN loadPromises
    ELSE IF col >= GridCols THEN SliceFrom(row + 1, 0, skipped, loadPromises)
    ELSE IF <<row, col>> \in skipped THEN SliceFrom(row, col + 1, skipped, loadPromises)
    ELSE SliceFrom(row, col + 1, skipped,
                   Append(loadPromises,
                          [spriteIndex |-> Len(loadPromises),
                           name |-> Len(loadPromises),
                           tile |-> <<row, col>>,
                           state |-> "toBlob"]))

\* the sprite a load promise resolves with
SpriteOf(img, load) ==
    [sheet |-> img, name |-> load.name, tile |-> load.tile, sortIndex |-> load.spriteIndex]

\* results.sort((a, b) => a._sortIndex - b._sortIndex)
RECURSIVE SortBySortIndex(_)
SortBySortIndex(results) ==
    IF results = <<>> THEN <<>>
    ELSE LET least == CHOOSE i \in DOMAIN results :
                          \A j \in DOMAIN results :
                              \/ results[i].sortIndex < results[j].sortIndex
                              \/ (results[i].sortIndex = results[j].sortIndex /\ i <= j)
         IN  <<results[least]>>
                 \o SortBySortIndex(SubSeq(results, 1, least - 1)
                                        \o SubSeq(results, least + 1, Len(results)))

\* await Promise.all(loadPromises), the null results filtered out, sorted
newSpritesOf(img, loadPromises) ==
    SortBySortIndex([i \in DOMAIN SelectSeq(loadPromises, LAMBDA l : l.state = "sprite") |->
                        SpriteOf(img, SelectSeq(loadPromises, LAMBDA l : l.state = "sprite")[i])])

\* performImport after its await, in slice mode: with pendingImportImage
\* null, pendingImportImage.objectURL throws a TypeError
AfterAwait(s, insertPosition) ==
    IF s.pendingImportImage = NullImage
    THEN [s EXCEPT !.importing.phase = "threw"]
    ELSE IF newSpritesOf(s.importing.img, s.importing.loadPromises) = <<>>
    THEN closeImportModal([s EXCEPT !.confirmImportBtn.disabled = FALSE,
                                    !.importing.phase = "done"],
                          FALSE)
    ELSE closeImportModal(
             [s EXCEPT !.confirmImportBtn.disabled = FALSE,
                       !.importing.phase = "done",
                       !.importing.newSprites =
                           newSpritesOf(s.importing.img, s.importing.loadPromises),
                       !.importing.insertIdx = insertIdxOf(s, insertPosition),
                       !.sprites = Splice(@, insertIdxOf(s, insertPosition),
                                          newSpritesOf(s.importing.img,
                                                       s.importing.loadPromises))],
             TRUE)

\* every promise of loadPromises is resolved
AllSettled(loadPromises) ==
    \A i \in DOMAIN loadPromises : loadPromises[i].state \in {"sprite", "null"}

\* Promise.all resolves when its last promise does, and performImport goes
\* on at once
WhenAllSettled(s, insertPosition) ==
    IF AllSettled(s.importing.loadPromises) THEN AfterAwait(s, insertPosition) ELSE s

Tiles == (0..(GridRows - 1)) \X (0..(GridCols - 1))

\* performImport up to its await, in slice mode, the tiles of skipped
\* being empty and skipped
StartSlice(s, skipped) ==
    [s EXCEPT !.confirmImportBtn.disabled = TRUE,
              !.importing = [phase |-> "awaiting", mode |-> "slice",
                             img |-> s.pendingImportImage, skipped |-> skipped,
                             loadPromises |-> SliceFrom(0, 0, skipped, <<>>),
                             settled |-> <<>>, newSprites |-> <<>>, insertIdx |-> 0]]

\* the click on Import in slice mode
ConfirmSlice ==
    /\ packer.loaded
    /\ packer.importModal.show
    /\ ~packer.confirmImportBtn.disabled
    /\ packer.pendingImportImage # NullImage
    /\ \E skipped \in SUBSET Tiles, insertPosition \in {"end", "start"} :
           packer' = RunMicrotasks(WhenAllSettled(StartSlice(packer, skipped), insertPosition))
    /\ UNCHANGED packerOther

\* the click on Import in single mode: performImport does not wait
ConfirmSingle ==
    /\ packer.loaded
    /\ packer.importModal.show
    /\ ~packer.confirmImportBtn.disabled
    /\ packer.pendingImportImage # NullImage
    /\ \E insertPosition \in {"end", "start"} :
           LET newSprites == <<[sheet |-> packer.pendingImportImage, name |-> -1,
                                tile |-> <<-1, -1>>, sortIndex |-> -1]>>
           IN  packer' = RunMicrotasks(closeImportModal(
                   [packer EXCEPT !.importing =
                                      [phase |-> "done", mode |-> "single",
                                       img |-> packer.pendingImportImage, skipped |-> {},
                                       loadPromises |-> <<>>, settled |-> <<>>,
                                       newSprites |-> newSprites,
                                       insertIdx |-> insertIdxOf(packer, insertPosition)],
                                  !.sprites = Splice(@, insertIdxOf(packer, insertPosition),
                                                     newSprites)],
                   TRUE))
    /\ UNCHANGED packerOther

\* the callback of spriteCanvas.toBlob of a tile: a blob, whose image
\* starts to load, or null
ToBlobCallback ==
    /\ packer.loaded
    /\ packer.importing.phase = "awaiting"
    /\ \E i \in DOMAIN packer.importing.loadPromises,
          blob \in {"blob", "null"}, insertPosition \in {"end", "start"} :
           /\ packer.importing.loadPromises[i].state = "toBlob"
           /\ packer' = RunMicrotasks(WhenAllSettled(
                  [packer EXCEPT !.importing.loadPromises[i].state =
                                     IF blob = "null" THEN "null" ELSE "image",
                                 !.importing.settled =
                                     IF blob = "null" THEN Append(@, i - 1) ELSE @],
                  insertPosition))
    /\ UNCHANGED packerOther

\* spriteImg.onload or spriteImg.onerror of a tile
ImageCallback ==
    /\ packer.loaded
    /\ packer.importing.phase = "awaiting"
    /\ \E i \in DOMAIN packer.importing.loadPromises,
          event \in {"load", "error"}, insertPosition \in {"end", "start"} :
           /\ packer.importing.loadPromises[i].state = "image"
           /\ packer' = RunMicrotasks(WhenAllSettled(
                  [packer EXCEPT !.importing.loadPromises[i].state =
                                     IF event = "load" THEN "sprite" ELSE "null",
                                 !.importing.settled = Append(@, i - 1)],
                  insertPosition))
    /\ UNCHANGED packerOther

InitPacker(kind) ==
    /\ expr = <<>>
    /\ variables = NoBindings
    /\ src = [kind |-> kind]
    /\ out = [v \in Variants |-> NotCalled]
    /\ NoCalls
    /\ NoTimers
    /\ NoCurves
    /\ NoSim

\* the page with no file dropped yet
InitModal == InitPacker("modal") /\ packer = PackerLoaded
NextModal == HandleFiles \/ FilesLoaded \/ CloseModal \/ ConfirmSingle
SpecModal == InitModal /\ [][NextModal]_vars

\* the page showing the modal of the first sheet of one drop
InitImport ==
    /\ InitPacker("import")
    /\ \E n \in 1..MaxSheets :
           packer = processPendingSheets(
                        [PackerLoaded EXCEPT !.handleFiles[1] =
                             [phase |-> "loading", sheets |-> n, at |-> 0]],
                        1, 1)
NextImport == ConfirmSlice \/ ConfirmSingle \/ ToBlobCallback \/ ImageCallback \/ CloseModal
SpecImport == InitImport /\ [][NextImport]_vars

\* C25: at most one sheet import is pending at any time: showImportModal
\* is never entered while a modal shown before is unresolved, so every call
\* of handleFiles that waits for its modal is the one whose promise
\* importModal._resolve resolves and whose sheet pendingImportImage is.
C25_OneImportPending ==
    \A c \in 1..MaxDrops :
        packer.handleFiles[c].phase = "waiting" =>
            /\ packer.importModal.show
            /\ packer.importModal.resolve = c
            /\ packer.pendingImportImage = Sheet(c, packer.handleFiles[c].at)

\* two drops whose loads overlapped: the second call's showImportModal has
\* replaced the first one's sheet and resolve, and the first call, which
\* has a second sheet to show, waits for a promise nothing can resolve
C25_Witness ==
    /\ packer.handleFiles[1].phase = "waiting"
    /\ packer.handleFiles[1].sheets = 2 /\ packer.handleFiles[1].at = 1
    /\ packer.handleFiles[2].phase = "done"
    /\ ~packer.importModal.show
    /\ packer.importModal.resolve = 0

\* C26: the sprites a slice import inserts are in the row-major order of
\* their tiles, whatever the order in which the callbacks came, and the
\* name suffix of each is its position among them.
C26_SlicesInRowMajorOrder ==
    (packer.importing.phase = "done" /\ packer.importing.mode = "slice") =>
        LET new == packer.importing.newSprites
            at == packer.importing.insertIdx
        IN  /\ Len(packer.sprites) >= at + Len(new)
            /\ SubSeq(packer.sprites, at + 1, at + Len(new)) = new
            /\ \A i, j \in DOMAIN new :
                   i < j => RowMajor(new[i].tile) < RowMajor(new[j].tile)
            /\ \A i \in DOMAIN new : new[i].name = i - 1

\* a 2 x 2 sheet with no tile skipped: the last tile's image loaded first,
\* toBlob gave null for the first tile, and the three sprites inserted are
\* named 1, 2 and 3 at the positions 0, 1 and 2
C26_Witness ==
    /\ packer.importing.phase = "done" /\ packer.importing.mode = "slice"
    /\ packer.importing.skipped = {}
    /\ Len(packer.importing.settled) = 4
    /\ packer.importing.settled[1] = 3
    /\ packer.importing.loadPromises[1].state = "null"
    /\ Len(packer.importing.newSprites) = 3
    /\ \A i \in 1..3 : /\ packer.importing.newSprites[i].name = i
                       /\ RowMajor(packer.importing.newSprites[i].tile) = i
    /\ packer.sprites = packer.importing.newSprites

\* C30: when the modal is closed while performImport waits for the sliced
\* images, performImport still finishes without an error, and the Import
\* button is enabled once it has finished.
C30_ImportSurvivesClose ==
    /\ packer.importing.phase # "threw"
    /\ packer.importing.phase # "awaiting" => ~packer.confirmImportBtn.disabled

\* the only sheet's modal was closed during the wait: performImport threw
\* at pendingImportImage.objectURL, nothing was inserted and the button
\* stays disabled
C30_Witness ==
    /\ packer.importing.phase = "threw"
    /\ packer.pendingImportImage = NullImage
    /\ ~packer.importModal.show
    /\ packer.handleFiles[1].phase = "done" /\ packer.handleFiles[1].sheets = 1
    /\ AllSettled(packer.importing.loadPromises)
    /\ packer.confirmImportBtn.disabled
    /\ packer.sprites = <<>>

====
